---- MODULE Spec2Model ----
(***************************************************************************)
(* A model of the quiz engine's Game object (src/src/model/game.ts): the   *)
(* ordered sequence of game states with its current index, the player      *)
(* roster with its scoring and rebalancing rule, and the two listener      *)
(* lists through which changes are announced.                              *)
(*                                                                         *)
(* Every public method of Game is an operator that takes the object's      *)
(* fields as a record g and returns the record after the call.  A method   *)
(* runs to completion (JavaScript is single threaded), so every action of  *)
(* the model is one whole call.  What a call did on the way (the callbacks *)
(* it invoked, the payloads it delivered, the scores between the update    *)
(* loop and the rebalancing step) is written to g.log, which holds the     *)
(* events of the most recent call only.                                    *)
(*                                                                         *)
(* Around the Game object the model has the Server that routes requests    *)
(* and websockets to its listeners (src/src/controller/server.ts), the     *)
(* BigScreenServer listener (src/unnamed/part_002) and the message         *)
(* handling of the browser client (src/unnamed/part_001).                  *)
(***************************************************************************)
EXTENDS Integers, Sequences, FiniteSets, TLC

\* ------------------------------------------------------------------ bounds

\* The longest state sequence a configuration builds (Lobby included).
MaxStates == 3
\* Scores are kept within -MaxScore .. MaxScore: an update that would leave
\* the range is not enumerated.
MaxScore == 2
\* The total number of listener subscriptions kept at one time.
MaxListeners == 3
\* How deep setCurState calls may nest when callbacks call it again.
MaxDepth == 2
\* The number of websockets connected to the server at one time.
MaxSockets == 2

\* `let min_score = Infinity`: any number above every score of the model.
Infinity == 1000000

\* ------------------------------------------------------------------ domains

\* Names the roster operations are called with; "zed" is the name that is
\* unknown to the roster until it is added.
PlayerNames == {"a", "B"}
ArgNames == PlayerNames \cup {"zed"}
\* The BigScreenServer as a listener of the game and of the server.
BigScreens == {4}
\* The values BigScreenServer is constructed with for top_n, "the top n
\* players" shown: the default and two smaller numbers of rows.
TopNs == {0, 1, 3}
\* Listener objects (BigScreenServer and its siblings).
Listeners == {1, 2}
\* A listener that unsubscribes itself inside its update callback.
LeavingListeners == {3}
\* (start_score, reset_score) pairs a configuration file may give: the
\* constructor takes the two numbers as they are.
Configs == {<<1, 1>>, <<-2, 1>>, <<1, -1>>}
\* Names of the states a configuration builds, in order; Lobby is always first.
StateNames == <<"lobby", "openquestion", "cjudgedmovieround", "openquestion">>
\* Score arguments of updateScores.
Deltas == {-2, 1}
\* What a state's lifecycle callback does when it is invoked.
QuietCallbacks == {"quiet"}
AnnouncingCallbacks == {"quiet", "announce"}
ReentrantCallbacks == {"quiet", "announce", "advance"}

VARIABLES
    start_score,          \* Game.start_score
    reset_score,          \* Game.reset_score
    state_sequence,       \* Game.state_sequence: the states' names, in order
    cur_state_idx,        \* Game.cur_state_idx (0-based)
    active,               \* the states that got begin_active and no end_active since
    players,              \* Game.players: entries in insertion order
    gameStateListeners,   \* Game.gameStateListeners
    playerListeners,      \* Game.playerListeners
    call,                 \* the most recent call: its name, result, the names given
    log,                  \* the events of the most recent call, in order
    last_valid_target,    \* target of the latest top-level setCurState in range
    routeMap,             \* Server.routeMap: route token -> listener
    express,              \* the handlers given to express.get, in order
    sockets,              \* the websockets handed to a listener and still open
    clients,              \* BigScreenServer.clients
    top_n,                \* BigScreenServer.top_n
    readyState,           \* the browser's socket.readyState
    timer,                \* whether the client's ping interval is scheduled
    old_msg,              \* socket_listener_setup's old_msg
    new_msg,              \* socket_listener_setup's new_msg
    main_div              \* main_div.className of the client's page

gameVars == <<start_score, reset_score, state_sequence, cur_state_idx, active,
              players, gameStateListeners, playerListeners, last_valid_target>>
serverVars == <<routeMap, express, sockets, clients>>
clientVars == <<readyState, timer, old_msg, new_msg, main_div>>

vars == <<start_score, reset_score, state_sequence, cur_state_idx, active,
          players, gameStateListeners, playerListeners, routeMap, express,
          sockets, clients, top_n, readyState, timer, old_msg, new_msg,
          main_div, call, log, last_valid_target>>

\* The mutable fields of the Game object, as the methods below thread them.
G == [cur_state_idx |-> cur_state_idx, active |-> active, players |-> players,
      gameStateListeners |-> gameStateListeners,
      playerListeners |-> playerListeners, log |-> <<>>,
      ret |-> "void"]

\* ------------------------------------------------------------------ helpers

Range(s) == {s[i] : i \in 1..Len(s)}

\* One event of the log.  who: a state index or a listener; cur: the value
\* of cur_state_idx when the event happened; msg: the payload delivered.
Event(ev, who, cur, depth, msg) ==
    [ev |-> ev, who |-> who, cur |-> cur, depth |-> depth, msg |-> msg]

Emit(g, ev, who, depth, msg) ==
    [g EXCEPT !.log = Append(@, Event(ev, who, g.cur_state_idx, depth, msg))]

\* Object spread `{ ...base, ...over }`: the keys of both, over's values winning.
Spread(base, over) ==
    [k \in DOMAIN base \cup DOMAIN over |->
        IF k \in DOMAIN over THEN over[k] ELSE base[k]]

\* state_sequence[i] of the code is StateAt(i): the code counts from 0.
StateAt(i) == state_sequence[i + 1]

\* GameState.stateMsg(): the status message of state i.
stateMsg(i) == [general_info |-> i]

\* ------------------------------------------------------------------ listeners

\* Array.prototype.indexOf: the first position holding l (1-based), 0 if none.
indexOf(s, l) ==
    IF l \in Range(s) THEN CHOOSE i \in 1..Len(s) :
                              s[i] = l /\ \A j \in 1..(i - 1) : s[j] /= l
    ELSE 0

\* Array.prototype.splice(idx, 1)
splice1(s, i) == SubSeq(s, 1, i - 1) \o SubSeq(s, i + 1, Len(s))

\* removeGameListener taking out the last occurrence of the listener.
removeGameListener_lastOccurrence(g, l) ==
    LET subs == g.gameStateListeners
    IN IF l \in Range(subs)
       THEN [g EXCEPT !.gameStateListeners =
                splice1(@, CHOOSE i \in 1..Len(subs) :
                              subs[i] = l /\ \A j \in (i + 1)..Len(subs) : subs[j] /= l)]
       ELSE g

\* Game.removeGameListener / Game.removePlayerListener
removeGameListener(g, l) ==
    LET idx == indexOf(g.gameStateListeners, l)
    IN IF idx /= 0 THEN [g EXCEPT !.gameStateListeners = splice1(@, idx)] ELSE g
removePlayerListener(g, l) ==
    LET idx == indexOf(g.playerListeners, l)
    IN IF idx /= 0 THEN [g EXCEPT !.playerListeners = splice1(@, idx)] ELSE g

\* What a listener of LeavingListeners does when it is called: it
\* unsubscribes itself from the topic it was called on.
leave(g, l, val) ==
    IF val = "game" THEN removeGameListener(g, l) ELSE removePlayerListener(g, l)

\* JSON.stringify(v): the text a socket is given, a JSON text of value v.
JSONstringify(v) == [text |-> "json", value |-> v]

\* Array.prototype.slice(start, end): a negative index counts from the end,
\* both are clamped to the array.
slice(s, start, end) ==
    LET n == Len(s)
        from == IF start < 0 THEN (IF n + start < 0 THEN 0 ELSE n + start)
                ELSE (IF start > n THEN n ELSE start)
        to == IF end < 0 THEN (IF n + end < 0 THEN 0 ELSE n + end)
              ELSE (IF end > n THEN n ELSE end)
    IN SubSeq(s, from + 1, to)

\* sendPlayerUpdate sending the last top_n rows.
sendPlayerUpdate_lastRows(g, socket, msg, depth) ==
    Emit(g, "send", socket, depth,
         JSONstringify([player_update |-> slice(msg, Len(msg) - top_n, Len(msg))]))

\* BigScreenServer.sendPlayerUpdate(socket, msg)
sendPlayerUpdate(g, socket, msg, depth) ==
    Emit(g, "send", socket, depth,
         JSONstringify([player_update |-> slice(msg, 0, top_n)]))

\* BigScreenServer.sendGameUpdate(socket, msg).  general_info is a number
\* in this model, standing for an object that has no widget_name of its
\* own, so the message's widget_name is the one sent.
sendGameUpdate(g, socket, msg, depth) ==
    LET gi == msg.general_info
        wn == msg.widget_name
    IN Emit(g, "send", socket, depth,
            JSONstringify([widget_name |-> wn, general_info |-> gi]))

\* BigScreenServer.player_update / game_update: `for (const socket of
\* this.clients)`, from position k on.
RECURSIVE player_update(_, _, _, _)
player_update(g, msg, k, depth) ==
    IF k > Len(clients) THEN g
    ELSE player_update(sendPlayerUpdate(g, clients[k], msg, depth), msg, k + 1, depth)

RECURSIVE game_update(_, _, _, _)
game_update(g, msg, k, depth) ==
    IF k > Len(clients) THEN g
    ELSE game_update(sendGameUpdate(g, clients[k], msg, depth), msg, k + 1, depth)

\* BigScreenServer.update(val, msg)
BigScreenServer_update(g, val, msg, depth) ==
    IF val = "player" THEN player_update(g, msg, 1, depth)
    ELSE game_update(g, msg, 1, depth)

\* GameListener.update / PlayerListener.update: listener l receives msg on
\* topic val ("game" or "player").  The delivery is the event; a listener
\* of LeavingListeners then unsubscribes itself, the BigScreenServer sends
\* the message on to its clients.
update(g, l, val, msg, depth) ==
    LET g1 == Emit(g, val, l, depth, msg)
    IN IF l \in LeavingListeners THEN leave(g1, l, val)
       ELSE IF l \in BigScreens THEN BigScreenServer_update(g1, val, msg, depth)
       ELSE g1

RECURSIVE gameFanOut(_, _, _, _)
\* The fan-out going through the subscriptions from the last to the first.
gameFanOut_newestFirst(g, msg, i, depth) ==
    IF i > Len(g.gameStateListeners) THEN g
    ELSE gameFanOut(update(g, g.gameStateListeners[Len(g.gameStateListeners) + 1 - i],
                           "game", msg, depth),
                    msg, i + 1, depth)

\* `for (const l of this.gameStateListeners) l.update("game", msg)`: the
\* array iterator reads the list by position and re-reads its length at
\* every step.
gameFanOut(g, msg, i, depth) ==
    IF i > Len(g.gameStateListeners) THEN g
    ELSE gameFanOut(update(g, g.gameStateListeners[i], "game", msg, depth),
                    msg, i + 1, depth)

\* gameStateChange with the active state's name laid over the message.
gameStateChange_overlay(g, msg0, depth) ==
    LET msg == Spread(msg0, [widget_name |-> StateAt(g.cur_state_idx)])
    IN gameFanOut(Emit(g, "publish_game", 0, depth, msg), msg, 1, depth)

\* Game.gameStateChange(msg)
gameStateChange(g, msg0, depth) ==
    LET msg == Spread([widget_name |-> StateAt(g.cur_state_idx)], msg0)
    IN gameFanOut(Emit(g, "publish_game", 0, depth, msg), msg, 1, depth)

\* Game.getGameDataMsg()
getGameDataMsg(g) ==
    Spread([widget_name |-> StateAt(g.cur_state_idx)], stateMsg(g.cur_state_idx))

\* Game.addGameListener / Game.addPlayerListener: push.
addGameListener(g, l) == [g EXCEPT !.gameStateListeners = Append(@, l)]
addPlayerListener(g, l) == [g EXCEPT !.playerListeners = Append(@, l)]

\* ------------------------------------------------------------------ game states

RECURSIVE setCurState(_, _, _, _, _)
RECURSIVE begin_active(_, _, _, _)
RECURSIVE end_active(_, _, _, _)

\* What a lifecycle callback of state i does besides being called: nothing,
\* announce its status message, or (a round that skips itself) move the
\* game on with setCurState(1, true).
callbackBody(g, i, what, cb, depth) ==
    CASE what = "announce" -> gameStateChange(g, stateMsg(i), depth)
      [] what = "advance" /\ depth < MaxDepth ->
            setCurState(g, 1, TRUE, cb, depth + 1)
      [] OTHER -> g

\* GameState.begin_active(): state i is told it is the active one.
begin_active(g, i, cb, depth) ==
    LET g1 == Emit([g EXCEPT !.active = @ \cup {i}], "begin_active", i, depth, <<>>)
    IN Emit(callbackBody(g1, i, cb.begin, cb, depth),
            "begin_active_ret", i, depth, <<>>)

\* GameState.end_active(): state i is told it is no longer the active one.
end_active(g, i, cb, depth) ==
    LET g1 == Emit([g EXCEPT !.active = @ \ {i}], "end_active", i, depth, <<>>)
    IN Emit(callbackBody(g1, i, cb.end, cb, depth),
            "end_active_ret", i, depth, <<>>)

\* setCurState with the new state told before the old one.
setCurState_beginBeforeEnd(g, idx0, relative, cb, depth) ==
    LET idx == IF relative THEN idx0 + g.cur_state_idx ELSE idx0
        g0 == Emit(g, "setCurState", idx, depth, <<>>)
    IN IF idx < 0 \/ idx >= Len(state_sequence) \/ Len(state_sequence) = 0
       THEN Emit(g0, "warn", idx, depth, <<>>)
       ELSE LET old_idx == g0.cur_state_idx
                g1 == begin_active([g0 EXCEPT !.cur_state_idx = idx], idx, cb, depth)
                g2 == end_active(g1, old_idx, cb, depth)
            IN Emit(g2, "setCurState_ret", idx, depth, <<>>)

\* setCurState that announces the new state itself once begin_active is back.
setCurState_announcing(g, idx0, relative, cb, depth) ==
    LET idx == IF relative THEN idx0 + g.cur_state_idx ELSE idx0
        g0 == Emit(g, "setCurState", idx, depth, <<>>)
    IN IF idx < 0 \/ idx >= Len(state_sequence) \/ Len(state_sequence) = 0
       THEN Emit(g0, "warn", idx, depth, <<>>)
       ELSE LET old_idx == g0.cur_state_idx
                g1 == end_active(g0, old_idx, cb, depth)
                g2 == [g1 EXCEPT !.cur_state_idx = idx]
                g3 == begin_active(g2, idx, cb, depth)
                g4 == gameStateChange(g3, stateMsg(idx), depth)
            IN Emit(g4, "setCurState_ret", idx, depth, <<>>)

\* setCurState that tells the old state before it looks at the target.
setCurState_endBeforeCheck(g, idx0, relative, cb, depth) ==
    LET idx == IF relative THEN idx0 + g.cur_state_idx ELSE idx0
        g0 == Emit(g, "setCurState", idx, depth, <<>>)
        old_idx == g0.cur_state_idx
        g1 == end_active(g0, old_idx, cb, depth)
    IN IF idx < 0 \/ idx >= Len(state_sequence) \/ Len(state_sequence) = 0
       THEN Emit(g1, "warn", idx, depth, <<>>)
       ELSE LET g2 == [g1 EXCEPT !.cur_state_idx = idx]
                g3 == begin_active(g2, idx, cb, depth)
            IN Emit(g3, "setCurState_ret", idx, depth, <<>>)

\* setCurState that takes idx as absolute whatever `relative` says.
setCurState_ignoreRelative(g, idx0, relative, cb, depth) ==
    LET idx == idx0
        g0 == Emit(g, "setCurState", idx, depth, <<>>)
    IN IF idx < 0 \/ idx >= Len(state_sequence) \/ Len(state_sequence) = 0
       THEN Emit(g0, "warn", idx, depth, <<>>)
       ELSE LET old_idx == g0.cur_state_idx
                g1 == end_active(g0, old_idx, cb, depth)
                g2 == [g1 EXCEPT !.cur_state_idx = idx]
                g3 == begin_active(g2, idx, cb, depth)
            IN Emit(g3, "setCurState_ret", idx, depth, <<>>)

\* setCurState whose upper check is `idx > length`.
setCurState_offByOne(g, idx0, relative, cb, depth) ==
    LET idx == IF relative THEN idx0 + g.cur_state_idx ELSE idx0
        g0 == Emit(g, "setCurState", idx, depth, <<>>)
    IN IF idx < 0 \/ idx > Len(state_sequence) \/ Len(state_sequence) = 0
       THEN Emit(g0, "warn", idx, depth, <<>>)
       ELSE LET old_idx == g0.cur_state_idx
                g1 == end_active(g0, old_idx, cb, depth)
                g2 == [g1 EXCEPT !.cur_state_idx = idx]
                g3 == begin_active(g2, idx, cb, depth)
            IN Emit(g3, "setCurState_ret", idx, depth, <<>>)

\* setCurState that never tells the old state.
setCurState_noEnd(g, idx0, relative, cb, depth) ==
    LET idx == IF relative THEN idx0 + g.cur_state_idx ELSE idx0
        g0 == Emit(g, "setCurState", idx, depth, <<>>)
    IN IF idx < 0 \/ idx >= Len(state_sequence) \/ Len(state_sequence) = 0
       THEN Emit(g0, "warn", idx, depth, <<>>)
       ELSE LET g2 == [g0 EXCEPT !.cur_state_idx = idx]
                g3 == begin_active(g2, idx, cb, depth)
            IN Emit(g3, "setCurState_ret", idx, depth, <<>>)

\* setCurState that resolves a relative idx by calling itself with the
\* absolute one.
setCurState_recursiveRelative(g, idx0, relative, cb, depth) ==
    LET idx == IF relative THEN idx0 + g.cur_state_idx ELSE idx0
        g0 == Emit(g, "setCurState", idx, depth, <<>>)
    IN IF relative
       THEN Emit(setCurState(g0, idx, FALSE, cb, depth + 1),
                 "setCurState_ret", idx, depth, <<>>)
       ELSE IF idx < 0 \/ idx >= Len(state_sequence) \/ Len(state_sequence) = 0
       THEN Emit(g0, "warn", idx, depth, <<>>)
       ELSE LET old_idx == g0.cur_state_idx
                g1 == end_active(g0, old_idx, cb, depth)
                g2 == [g1 EXCEPT !.cur_state_idx = idx]
                g3 == begin_active(g2, idx, cb, depth)
            IN Emit(g3, "setCurState_ret", idx, depth, <<>>)

\* setCurState that does nothing when the target is the current state.
setCurState_skipSame(g, idx0, relative, cb, depth) ==
    LET idx == IF relative THEN idx0 + g.cur_state_idx ELSE idx0
        g0 == Emit(g, "setCurState", idx, depth, <<>>)
    IN IF idx < 0 \/ idx >= Len(state_sequence) \/ Len(state_sequence) = 0
       THEN Emit(g0, "warn", idx, depth, <<>>)
       ELSE IF idx = g0.cur_state_idx
       THEN Emit(g0, "setCurState_ret", idx, depth, <<>>)
       ELSE LET old_idx == g0.cur_state_idx
                g1 == end_active(g0, old_idx, cb, depth)
                g2 == [g1 EXCEPT !.cur_state_idx = idx]
                g3 == begin_active(g2, idx, cb, depth)
            IN Emit(g3, "setCurState_ret", idx, depth, <<>>)

\* Game.setCurState(idx, relative).  The "setCurState" event carries the
\* target in who and the index before the call in cur.
setCurState(g, idx0, relative, cb, depth) ==
    LET idx == IF relative THEN idx0 + g.cur_state_idx ELSE idx0
        g0 == Emit(g, "setCurState", idx, depth, <<>>)
    IN IF \/ idx < 0
          \/ idx >= Len(state_sequence)
          \/ Len(state_sequence) = 0
       THEN Emit(g0, "warn", idx, depth, <<>>)
       ELSE LET old_idx == g0.cur_state_idx
                g1 == end_active(g0, old_idx, cb, depth)
                g2 == [g1 EXCEPT !.cur_state_idx = idx]
                g3 == begin_active(g2, idx, cb, depth)
            IN Emit(g3, "setCurState_ret", idx, depth, <<>>)

\* ------------------------------------------------------------------ players

\* Map.has / Map.get on the roster: the position of name's entry, 0 if none.
entryOf(ps, name) ==
    IF \E i \in 1..Len(ps) : ps[i].name = name
    THEN CHOOSE i \in 1..Len(ps) : ps[i].name = name
    ELSE 0

\* String.prototype.localeCompare on the names of the model: negative, zero
\* or positive.  Locale order puts "a" before "B"; code unit order does not.
LocaleOrder == <<"a", "B", "zed">>
localeCompare(x, y) == indexOf(LocaleOrder, x) - indexOf(LocaleOrder, y)

\* The comparator with the score looked at before isplaying.
compare_scoreFirst(a, b) ==
    LET byPlaying == (IF b.isplaying THEN 1 ELSE 0) - (IF a.isplaying THEN 1 ELSE 0)
        byScore == b.score - a.score
    IN IF byScore /= 0 THEN byScore
       ELSE IF byPlaying /= 0 THEN byPlaying
       ELSE localeCompare(a.name, b.name)

\* The comparator of playerDataDump: `x || y || z` is the first term that
\* is not zero.
compare(a, b) ==
    LET byPlaying == (IF b.isplaying THEN 1 ELSE 0) - (IF a.isplaying THEN 1 ELSE 0)
        byScore == b.score - a.score
    IN IF byPlaying /= 0 THEN byPlaying
       ELSE IF byScore /= 0 THEN byScore
       ELSE localeCompare(a.name, b.name)

\* Array.prototype.sort(compare): a stable sort, here by insertion.
RECURSIVE insertSorted(_, _)
insertSorted(s, x) ==
    IF s = <<>> THEN <<x>>
    ELSE IF compare(Head(s), x) <= 0 THEN <<Head(s)>> \o insertSorted(Tail(s), x)
    ELSE <<x>> \o s

RECURSIVE sort(_)
sort(s) ==
    IF s = <<>> THEN <<>>
    ELSE insertSorted(sort(SubSeq(s, 1, Len(s) - 1)), s[Len(s)])

\* Game.playerDataDump()
playerDataDump(g) == sort(g.players)

\* getPlayerNames that filters only when the argument is truthy.
getPlayerNames_truthy(g, isplaying) ==
    LET all == g.players
        kept == IF isplaying = "true"
                THEN SelectSeq(all, LAMBDA p : p.isplaying)
                ELSE all
    IN [i \in 1..Len(kept) |-> kept[i].name]

\* Game.getPlayerNames(isplaying): isplaying is "undefined" (the default),
\* "true" or "false".  Array.from(this.players) lists the entries in
\* insertion order.
getPlayerNames(g, isplaying) ==
    LET all == g.players
        kept == IF isplaying /= "undefined"
                THEN SelectSeq(all, LAMBDA p : p.isplaying = (isplaying = "true"))
                ELSE all
    IN [i \in 1..Len(kept) |-> kept[i].name]

\* `for (const l of this.playerListeners) l.update("player", datadump)`
RECURSIVE playerFanOut(_, _, _, _)
playerFanOut(g, datadump, i, depth) ==
    IF i > Len(g.playerListeners) THEN g
    ELSE playerFanOut(update(g, g.playerListeners[i], "player", datadump, depth),
                      datadump, i + 1, depth)

\* playerChange that goes on to tell the game listeners.
playerChange_alsoGameListeners(g) ==
    LET datadump == playerDataDump(g)
    IN gameFanOut(playerFanOut(Emit(g, "publish_player", 0, 1, datadump),
                               datadump, 1, 1),
                  datadump, 1, 1)

\* Game.playerChange()
playerChange(g) ==
    LET datadump == playerDataDump(g)
    IN playerFanOut(Emit(g, "publish_player", 0, 1, datadump), datadump, 1, 1)

\* addPlayer that gives a name already in use a fresh entry.
addPlayer_overwrite(g, name) ==
    LET fresh == [name |-> name, score |-> start_score, isplaying |-> TRUE]
        at == entryOf(g.players, name)
        g1 == IF at /= 0 THEN [g EXCEPT !.players[at] = fresh]
              ELSE [g EXCEPT !.players = Append(@, fresh)]
    IN [playerChange(g1) EXCEPT !.ret = TRUE]

\* Game.addPlayer(name)
addPlayer(g, name) ==
    IF entryOf(g.players, name) /= 0
    THEN [g EXCEPT !.ret = FALSE]
    ELSE LET g1 == [g EXCEPT !.players =
                        Append(@, [name |-> name, score |-> start_score,
                                   isplaying |-> TRUE])]
         IN [playerChange(g1) EXCEPT !.ret = TRUE]

\* removePlayer that announces also when the name is unknown.
removePlayer_announceAlways(g, name) ==
    IF entryOf(g.players, name) = 0
    THEN playerChange(Emit(g, "warn", 0, 1, <<>>))
    ELSE playerChange([g EXCEPT !.players = splice1(@, entryOf(@, name))])

\* Game.removePlayer(name)
removePlayer(g, name) ==
    IF entryOf(g.players, name) = 0
    THEN Emit(g, "warn", 0, 1, <<>>)
    ELSE playerChange([g EXCEPT !.players = splice1(@, entryOf(@, name))])

RECURSIVE updateLoop(_, _, _, _, _)
\* The loop of updateScores creating an entry for an unknown name.
updateLoop_createUnknown(g, min_score, map, k, additive) ==
    IF k > Len(map) THEN [g |-> g, min_score |-> min_score]
    ELSE LET name == map[k][1]
             score == map[k][2]
             at == entryOf(g.players, name)
         IN IF at /= 0
            THEN LET new == IF additive THEN g.players[at].score + score ELSE score
                     g1 == [g EXCEPT !.players[at].score = new]
                 IN updateLoop(g1, IF new < min_score THEN new ELSE min_score,
                               map, k + 1, additive)
            ELSE updateLoop([g EXCEPT !.players =
                                Append(@, [name |-> name, score |-> score,
                                           isplaying |-> TRUE])],
                            IF score < min_score THEN score ELSE min_score,
                            map, k + 1, additive)

\* The loop of updateScores over map.entries(), from entry k on: map is the
\* sequence of the map's <<name, score>> entries.  Gives the roster and
\* min_score after the loop.
updateLoop(g, min_score, map, k, additive) ==
    IF k > Len(map) THEN [g |-> g, min_score |-> min_score]
    ELSE LET name == map[k][1]
             score == map[k][2]
             at == entryOf(g.players, name)
         IN IF at /= 0
            THEN LET new == IF additive THEN g.players[at].score + score ELSE score
                     g1 == [g EXCEPT !.players[at].score = new]
                 IN updateLoop(g1, IF new < min_score THEN new ELSE min_score,
                               map, k + 1, additive)
            ELSE updateLoop(Emit(g, "warn", 0, 1, <<>>), min_score,
                            map, k + 1, additive)

\* `for (const [_, player] of this.players) player.score += amount`
raiseAll(ps, amount) ==
    [i \in 1..Len(ps) |-> [ps[i] EXCEPT !.score = @ + amount]]

\* The lowest score of the roster ps, Infinity when it is empty.
lowestOf(ps) ==
    IF ps = <<>> THEN Infinity
    ELSE LET S == {ps[i].score : i \in 1..Len(ps)}
         IN CHOOSE m \in S : \A x \in S : m <= x

\* updateScores that decides on the lowest score of the whole roster.
updateScores_minOverAll(g, map, additive) ==
    LET r == updateLoop(g, Infinity, map, 1, additive)
        min_score == lowestOf(r.g.players)
        g1 == Emit(r.g, "scores_updated", min_score, 1, r.g.players)
        g2 == IF min_score < 0
              THEN Emit([g1 EXCEPT !.players =
                            raiseAll(@, -min_score + reset_score)],
                        "rebalance", -min_score + reset_score, 1, <<>>)
              ELSE g1
    IN [playerChange(g2) EXCEPT !.ret = (min_score >= 0)]

\* updateScores that adds reset_score only.
updateScores_addResetOnly(g, map, additive) ==
    LET r == updateLoop(g, Infinity, map, 1, additive)
        min_score == r.min_score
        g1 == Emit(r.g, "scores_updated", min_score, 1, r.g.players)
        g2 == IF min_score < 0
              THEN Emit([g1 EXCEPT !.players = raiseAll(@, reset_score)],
                        "rebalance", reset_score, 1, <<>>)
              ELSE g1
    IN [playerChange(g2) EXCEPT !.ret = (min_score >= 0)]

\* updateScores that raises only the players below zero.
updateScores_raiseNegativesOnly(g, map, additive) ==
    LET r == updateLoop(g, Infinity, map, 1, additive)
        min_score == r.min_score
        g1 == Emit(r.g, "scores_updated", min_score, 1, r.g.players)
        g2 == IF min_score < 0
              THEN Emit([g1 EXCEPT !.players =
                            [i \in 1..Len(@) |->
                                IF @[i].score < 0
                                THEN [@[i] EXCEPT !.score = @ + (-min_score + reset_score)]
                                ELSE @[i]]],
                        "rebalance", -min_score + reset_score, 1, <<>>)
              ELSE g1
    IN [playerChange(g2) EXCEPT !.ret = (min_score >= 0)]

\* updateScores that returns whether it rebalanced.
updateScores_returnsRebalanced(g, map, additive) ==
    LET r == updateLoop(g, Infinity, map, 1, additive)
        min_score == r.min_score
        g1 == Emit(r.g, "scores_updated", min_score, 1, r.g.players)
        g2 == IF min_score < 0
              THEN Emit([g1 EXCEPT !.players =
                            raiseAll(@, -min_score + reset_score)],
                        "rebalance", -min_score + reset_score, 1, <<>>)
              ELSE g1
    IN [playerChange(g2) EXCEPT !.ret = (min_score < 0)]

\* updateScores that announces only when it updated a player.
updateScores_announceIfUpdated(g, map, additive) ==
    LET r == updateLoop(g, Infinity, map, 1, additive)
        min_score == r.min_score
        g1 == Emit(r.g, "scores_updated", min_score, 1, r.g.players)
        g2 == IF min_score < 0
              THEN Emit([g1 EXCEPT !.players =
                            raiseAll(@, -min_score + reset_score)],
                        "rebalance", -min_score + reset_score, 1, <<>>)
              ELSE g1
    IN [(IF min_score = Infinity THEN g2 ELSE playerChange(g2))
            EXCEPT !.ret = (min_score >= 0)]

\* updateScores that announces before the scores are raised.
updateScores_announceBeforeRaise(g, map, additive) ==
    LET r == updateLoop(g, Infinity, map, 1, additive)
        min_score == r.min_score
        g1 == playerChange(Emit(r.g, "scores_updated", min_score, 1, r.g.players))
        g2 == IF min_score < 0
              THEN Emit([g1 EXCEPT !.players =
                            raiseAll(@, -min_score + reset_score)],
                        "rebalance", -min_score + reset_score, 1, <<>>)
              ELSE g1
    IN [g2 EXCEPT !.ret = (min_score >= 0)]

\* Game.updateScores(map, additive).  The "scores_updated" event carries the
\* roster as the loop left it and min_score; "rebalance" the amount added.
updateScores(g, map, additive) ==
    LET r == updateLoop(g, Infinity, map, 1, additive)
        min_score == r.min_score
        g1 == Emit(r.g, "scores_updated", min_score, 1, r.g.players)
        g2 == IF min_score < 0
              THEN Emit([g1 EXCEPT !.players =
                            raiseAll(@, -min_score + reset_score)],
                        "rebalance", -min_score + reset_score, 1, <<>>)
              ELSE g1
    IN [playerChange(g2) EXCEPT !.ret = (min_score >= 0)]

\* Game.setIsPlaying(players, isplaying): names is the array (or the set, in
\* its order) of names given.
RECURSIVE setIsPlayingLoop(_, _, _, _)
setIsPlayingLoop(g, names, k, isplaying) ==
    IF k > Len(names) THEN g
    ELSE LET at == entryOf(g.players, names[k])
         IN IF at /= 0
            THEN setIsPlayingLoop([g EXCEPT !.players[at].isplaying = isplaying],
                                  names, k + 1, isplaying)
            ELSE setIsPlayingLoop(Emit(g, "warn", 0, 1, <<>>),
                                  names, k + 1, isplaying)

\* setIsPlaying that sets the flag of every player of the roster.
setIsPlaying_everyPlayer(g, names, isplaying) ==
    playerChange([setIsPlayingLoop(g, names, 1, isplaying) EXCEPT !.players =
                     [i \in 1..Len(@) |-> [@[i] EXCEPT !.isplaying = isplaying]]])

setIsPlaying(g, names, isplaying) ==
    playerChange(setIsPlayingLoop(g, names, 1, isplaying))

\* ------------------------------------------------------------------ actions

\* The object after a call: g's fields become the variables; the
\* configuration and the state sequence never change after construction.
Commit(g, op, names) ==
    /\ cur_state_idx' = g.cur_state_idx
    /\ active' = g.active
    /\ players' = g.players
    /\ gameStateListeners' = g.gameStateListeners
    /\ playerListeners' = g.playerListeners
    /\ log' = g.log
    /\ call' = [op |-> op, ret |-> g.ret, names |-> names]
    /\ UNCHANGED <<start_score, reset_score, state_sequence>>
    /\ UNCHANGED <<serverVars, top_n, clientVars>>

\* The arguments of a call, written to the log before the call runs: the
\* boolean given (for a published message: whether it has a widget_name;
\* FALSE when the call takes none) and the map, the names, the message or
\* the listener.
Called(g, flag, arg) == Emit(g, "args", flag, 1, arg)

ScoresInRange(ps) == \A i \in 1..Len(ps) : ps[i].score \in -MaxScore..MaxScore

\* A top-level call of setCurState(idx, relative); cb says what the
\* states' callbacks do during it.
SetCurState(idx, relative, cb) ==
    LET target == IF relative THEN idx + cur_state_idx ELSE idx
    IN /\ Commit(setCurState(G, idx, relative, cb, 1), "setCurState", <<>>)
       /\ last_valid_target' =
            IF target >= 0 /\ target < Len(state_sequence)
            THEN target ELSE last_valid_target

\* The active state announces its status message outside a transition.
GameStateChange ==
    /\ Commit(gameStateChange(G, stateMsg(cur_state_idx), 1), "gameStateChange", <<>>)
    /\ UNCHANGED last_valid_target

\* A state publishes msg of its own making on the game channel.
Publish(msg) ==
    /\ Commit(gameStateChange(Called(G, "widget_name" \in DOMAIN msg, msg), msg, 1),
              "gameStateChange", <<>>)
    /\ UNCHANGED last_valid_target

PlayerChange ==
    /\ Commit(playerChange(G), "playerChange", <<>>)
    /\ UNCHANGED last_valid_target

AddGameListener(l) ==
    /\ Len(gameStateListeners) + Len(playerListeners) < MaxListeners
    /\ Commit(addGameListener(G, l), "addGameListener", <<>>)
    /\ UNCHANGED last_valid_target

RemoveGameListener(l) ==
    /\ Commit(removeGameListener(Called(G, FALSE, l), l), "removeGameListener", <<>>)
    /\ UNCHANGED last_valid_target

AddPlayerListener(l) ==
    /\ Len(gameStateListeners) + Len(playerListeners) < MaxListeners
    /\ Commit(addPlayerListener(G, l), "addPlayerListener", <<>>)
    /\ UNCHANGED last_valid_target

RemovePlayerListener(l) ==
    /\ Commit(removePlayerListener(Called(G, FALSE, l), l), "removePlayerListener", <<>>)
    /\ UNCHANGED last_valid_target

AddPlayer(name) ==
    /\ Commit(addPlayer(G, name), "addPlayer", <<name>>)
    /\ UNCHANGED last_valid_target

RemovePlayer(name) ==
    /\ Commit(removePlayer(G, name), "removePlayer", <<name>>)
    /\ UNCHANGED last_valid_target

UpdateScores(map, additive) ==
    LET g == updateScores(Called(G, additive, map), map, additive)
    IN /\ ScoresInRange(g.players)
       /\ Commit(g, "updateScores", [k \in 1..Len(map) |-> map[k][1]])
       /\ UNCHANGED last_valid_target

SetIsPlaying(names, isplaying) ==
    /\ Commit(setIsPlaying(Called(G, isplaying, names), names, isplaying),
              "setIsPlaying", names)
    /\ UNCHANGED last_valid_target

\* The two queries: the roster is read, the result is what the call returns.
PlayerDataDump ==
    /\ Commit([G EXCEPT !.ret = playerDataDump(G)], "playerDataDump", <<>>)
    /\ UNCHANGED last_valid_target

GetPlayerNames(isplaying) ==
    /\ Commit([G EXCEPT !.ret = getPlayerNames(G, isplaying)],
              "getPlayerNames", <<isplaying>>)
    /\ UNCHANGED last_valid_target

\* ------------------------------------------------------------------ Server

\* The reserved heartbeat payloads (the ping and the pong emoji).
Ping == "ping"
Pong == "pong"
\* A message with nothing but its text.
Text(t) == [text |-> t, value |-> <<>>]

\* A route or a route token is the sequence of its characters.
\* String.prototype.substring(n)
substring(str, n) == SubSeq(str, n + 1, Len(str))

\* Map.prototype.has and Map.prototype.set on a map kept as a function.
EmptyMap == [k \in {} |-> 0]
has(map, key) == key \in DOMAIN map
set(map, key, val) ==
    [k \in DOMAIN map \cup {key} |-> IF k = key THEN val ELSE map[k]]

\* The server, its sockets and the BigScreenServer's client list as the
\* handlers below thread them; log takes the events of the call.
SRV == [routeMap |-> routeMap, express |-> express, sockets |-> sockets,
      clients |-> clients, log |-> <<>>]

\* An event of a server or client call: nothing of the game is involved.
Note(s, ev, who, msg) ==
    [s EXCEPT !.log = Append(@, Event(ev, who, 0, 1, msg))]

\* Server.addServerListener(route, listener): the test looks the route up
\* as given, the entry is stored under the route without its slash.
addServerListener(s, route, listener) ==
    IF has(s.routeMap, route)
    THEN Note(s, "warn", listener, route)
    ELSE [s EXCEPT !.routeMap = set(@, substring(route, 1), listener),
                   !.express = Append(@, [route |-> route, listener |-> listener])]

\* A GET request for route: express runs the first handler registered for
\* the path, and that handler calls its listener's express_get (which
\* answers the request and does not pass it on).
get(s, route) ==
    LET hits == {i \in 1..Len(s.express) : s.express[i].route = route}
    IN IF hits = {} THEN Note(s, "not_found", 0, route)
       ELSE LET first == CHOOSE i \in hits : \A j \in hits : i <= j
            IN Note(s, "express_get", s.express[first].listener, route)

\* A websocket as the connection handler receives it: open, with no
\* listener on "message" and the onmessage property of the prototype.
NewSocket(token) ==
    [protocol |-> token, message |-> <<>>, pingable |-> FALSE,
     installed |-> FALSE, replaced |-> FALSE, listener |-> 0]

\* Server.makePingable(socket): a listener that answers every message with
\* a pong, and an onmessage property with a setter of its own.
makePingable(socket) ==
    [socket EXCEPT !.message = Append(@, [kind |-> "pong", handler |-> "none"]),
                   !.pingable = TRUE]

\* The onmessage setter that adds its wrapper to the listeners there are.
onmessage_keepListeners(socket, handler) ==
    [socket EXCEPT !.message = Append(@, [kind |-> "pingpong", handler |-> handler]),
                   !.replaced = socket.installed,
                   !.installed = TRUE]

\* The onmessage setter that removes the default listener only and keeps
\* the wrappers of the handlers set before.
onmessage_keepEarlierHandlers(socket, handler) ==
    [socket EXCEPT !.message =
                       Append(SelectSeq(@, LAMBDA l : l.kind /= "pong"),
                              [kind |-> "pingpong", handler |-> handler]),
                   !.replaced = socket.installed,
                   !.installed = TRUE]

\* `socket.onmessage = handler` on a pingable socket: the setter removes
\* all listeners on "message" and adds one wrapper around handler.
onmessage(socket, handler) ==
    [socket EXCEPT !.message = <<[kind |-> "pingpong", handler |-> handler]>>,
                   !.replaced = socket.installed,
                   !.installed = TRUE]

\* A "message" event on socket id: ws calls the listeners in the order they
\* were added.  The first listener of makePingable answers anything with a
\* pong; the wrapper answers a ping and gives the rest to the handler.
RECURSIVE emitMessage(_, _, _, _)
emitMessage(s, id, data, k) ==
    LET listeners == s.sockets[id].message
    IN IF k > Len(listeners) THEN s
       ELSE emitMessage(
              IF listeners[k].kind = "pong" \/ data.text = Ping
              THEN Note(s, "send", id, Text(Pong))
              ELSE Note(s, "handler", id,
                        [handler |-> listeners[k].handler, data |-> data.text]),
              id, data, k + 1)

\* The text of the close reason: its fixed part has ReasonTextBytes bytes,
\* the token is put between the quotes.
ReasonTextBytes == 47
Reason(route) == [text |-> "Please specify 1 valid protocol. is invalid.",
                  route |-> route]
byteLength(reason) == ReasonTextBytes + Len(reason.route)

\* The longest reason a close frame can carry: a control frame has at most
\* 125 bytes of payload, two of them the status code.
MaxReasonBytes == 123

\* ws.WebSocket.close(code, reason) on an open socket: ws refuses a reason
\* longer than MaxReasonBytes with a RangeError before it writes a frame.
close(s, token, code, reason) ==
    IF byteLength(reason) > MaxReasonBytes
    THEN Note(s, "throw", 0, "RangeError")
    ELSE Note(s, "close", code, reason)

\* add_websocket of the BigScreenServer sending the roster before the game
\* state.
BigScreenServer_add_websocket_rosterFirst(s, id) ==
    LET pushed == [s EXCEPT !.clients = Append(@, id)]
        g == sendGameUpdate(sendPlayerUpdate(G, id, playerDataDump(G), 1),
                            id, getGameDataMsg(G), 1)
    IN [pushed EXCEPT !.log = @ \o g.log]

\* BigScreenServer.add_websocket(socket)
BigScreenServer_add_websocket(s, id) ==
    LET pushed == [s EXCEPT !.clients = Append(@, id)]
        g == sendPlayerUpdate(sendGameUpdate(G, id, getGameDataMsg(G), 1),
                              id, playerDataDump(G), 1)
    IN [pushed EXCEPT !.log = @ \o g.log]

\* ServerListener.add_websocket(socket): the listener takes the socket as
\* it is at this moment.
add_websocket(s, listener, id, socket) ==
    LET taken == Note([s EXCEPT !.sockets =
                          set(@, id, [socket EXCEPT !.listener = listener])],
                      "add_websocket", listener, socket)
    IN IF listener \in BigScreens THEN BigScreenServer_add_websocket(taken, id)
       ELSE taken

\* The id of a new socket.
FreeId(s) == CHOOSE id \in 1..MaxSockets : id \notin DOMAIN s.sockets

\* The connection handler giving the socket to the listener before the
\* heartbeat is laid over it.
connection_handFirst(s, token) ==
    LET socket == NewSocket(token)
        id == FreeId(s)
    IN IF has(s.routeMap, token)
       THEN LET given == add_websocket(s, s.routeMap[token], id, socket)
            IN [given EXCEPT !.sockets[id] = makePingable(@)]
       ELSE close(s, token, 1003, Reason(token))

\* The "connection" handler of the websocket server.
connection(s, token) ==
    LET socket == NewSocket(token)
        id == FreeId(s)
    IN IF has(s.routeMap, token)
       THEN add_websocket(s, s.routeMap[token], id, makePingable(socket))
       ELSE close(s, token, 1003, Reason(token))

\* The onclose of the BigScreenServer with `splice(idx)`: it removes the
\* socket and every socket after it.
BigScreenServer_onclose_spliceToEnd(s, id) ==
    LET idx == indexOf(s.clients, id)
    IN IF idx /= 0 THEN [s EXCEPT !.clients = SubSeq(@, 1, idx - 1)] ELSE s

\* socket.onclose of the BigScreenServer: the socket leaves the client list.
BigScreenServer_onclose(s, id) ==
    LET idx == indexOf(s.clients, id)
    IN IF idx /= 0 THEN [s EXCEPT !.clients = splice1(@, idx)] ELSE s

\* ------------------------------------------------------------------ server actions

\* The server after a call; the game and the client are not involved.
Served(s, op) ==
    /\ routeMap' = s.routeMap
    /\ express' = s.express
    /\ sockets' = s.sockets
    /\ clients' = s.clients
    /\ log' = s.log
    /\ call' = [op |-> op, ret |-> "void", names |-> <<>>]
    /\ UNCHANGED <<gameVars, top_n, clientVars>>

AddServerListener(route, listener) ==
    /\ [route |-> route, listener |-> listener] \notin Range(express)
    /\ Served(addServerListener(Note(SRV, "args", listener, route), route, listener),
              "addServerListener")

\* An HTTP GET request for route arrives.
Get(route) ==
    Served(get(Note(SRV, "args", 0, route), route), "get")

\* A websocket presenting token connects.
Connection(token) ==
    /\ Cardinality(DOMAIN sockets) < MaxSockets
    /\ Served(connection(Note(SRV, "args", 0, token), token), "connection")

\* The listener that holds socket id sets its onmessage.
SetOnmessage(id, handler) ==
    /\ id \in DOMAIN sockets
    /\ Served([SRV EXCEPT !.sockets[id] = onmessage(@, handler)], "onmessage")

\* Socket id receives data from its client.
Message(id, data) ==
    /\ id \in DOMAIN sockets
    /\ Served(emitMessage(Note(SRV, "args", id, data), id, data, 1), "message")

\* Socket id is closed: its "close" event runs the onclose its listener set.
Closed(id) ==
    /\ id \in DOMAIN sockets
    /\ LET s == IF sockets[id].listener \in BigScreens
                THEN BigScreenServer_onclose(SRV, id) ELSE SRV
       IN Served([s EXCEPT !.sockets = [k \in DOMAIN @ \ {id} |-> @[k]]], "onclose")

\* ------------------------------------------------------------------ client

\* The client's socket and the variables of socket_listener_setup as its
\* handlers thread them.  main_div is the className of the page's element
\* with id "main", which the pages of the app have (the widget scripts
\* fill it), so `main_div?.` and `main_div &&` find it.
CL == [readyState |-> readyState, timer |-> timer, old_msg |-> old_msg,
       new_msg |-> new_msg, main_div |-> main_div, log |-> <<>>]

\* The value old_msg and new_msg start with.
DefaultMsg == [widget_name |-> "-"]

\* The widgets the page has a template for.
Templates == {"lobby", "openquestion"}

\* A JSON text of an object with the given fields, and of a value of
\* another type (null, a number, an array).
EmptyFields == [k \in {} |-> ""]
Obj(fields) == JSONstringify([type |-> "object", fields |-> fields])
NonObj(type) == JSONstringify([type |-> type, fields |-> EmptyFields])

\* JSON.parse(event.data) succeeds on a JSON text only.
IsJSON(data) == data.text = "json"
\* `key in data`: a TypeError unless data is an object (an array is one).
IsObject(value) == value.type \in {"object", "array"}

\* What the code throws: an Error of some kind with its message.
Thrown(name, message) == [name |-> name, message |-> message]
instanceofError(e) == e.name \in {"Error", "SyntaxError", "TypeError"}

\* The catch block that only logs.
catch_logOnly(c, e) ==
    Note(Note(c, "warn", 0, "Something went wrong with receiving a message."),
         "warn", 0, e.message)

\* The catch block of onMessage: two warnings on the console, and for an
\* Error a pop-up put before main_div.
catch(c, e) ==
    LET warned == Note(Note(c, "warn", 0, "Something went wrong with receiving a message."),
                       "warn", 0, e.message)
    IN IF instanceofError(e) THEN Note(warned, "popup", 0, e.message) ELSE warned

\* document.dispatchEvent(new CustomEvent(type, { detail }))
dispatchEvent(c, type, detail) ==
    Note(c, "dispatch", 0, [type |-> type, detail |-> detail])

\* handleStatusMsg(data), called inside the try block.
handleStatusMsg(c, data) ==
    IF data.status = "failure"
    THEN catch(c, Thrown("Error", IF "error_msg" \in DOMAIN data
                                  THEN data.error_msg ELSE "Server error"))
    ELSE dispatchEvent(c, "server_status", data)

\* handleGameStateMessage(data)
handleGameStateMessage(c, data) ==
    LET w_name == data.widget_name
        switch == w_name /= c.main_div
        c1 == [c EXCEPT !.old_msg = IF switch THEN DefaultMsg ELSE c.new_msg,
                        !.new_msg = data,
                        !.main_div = IF ~switch THEN @
                                     ELSE IF w_name \in Templates THEN w_name
                                     ELSE "none"]
    IN dispatchEvent(c1, w_name, [old_msg |-> c1.old_msg, new_msg |-> c1.new_msg])

\* onMessage looking for widget_name before status.
onMessage_widgetFirst(c, event) ==
    IF event.text = Pong THEN c
    ELSE IF ~IsJSON(event)
    THEN catch(c, Thrown("SyntaxError", "Unexpected token"))
    ELSE IF ~IsObject(event.value)
    THEN catch(c, Thrown("TypeError", "Cannot use 'in' operator"))
    ELSE LET data == event.value.fields
         IN IF "widget_name" \in DOMAIN data THEN handleGameStateMessage(c, data)
            ELSE IF "status" \in DOMAIN data THEN handleStatusMsg(c, data)
            ELSE IF "player_update" \in DOMAIN data
            THEN dispatchEvent(c, "player_update", data)
            ELSE catch(c, Thrown("Error", "Server doet raar..."))

\* onMessage(event)
onMessage(c, event) ==
    IF event.text = Pong THEN c
    ELSE IF ~IsJSON(event)
    THEN catch(c, Thrown("SyntaxError", "Unexpected token"))
    ELSE IF ~IsObject(event.value)
    THEN catch(c, Thrown("TypeError", "Cannot use 'in' operator"))
    ELSE LET data == event.value.fields
         IN IF "status" \in DOMAIN data THEN handleStatusMsg(c, data)
            ELSE IF "widget_name" \in DOMAIN data THEN handleGameStateMessage(c, data)
            ELSE IF "player_update" \in DOMAIN data
            THEN dispatchEvent(c, "player_update", data)
            ELSE catch(c, Thrown("Error", "Server doet raar..."))

\* WebSocket.send(data) of the browser: an InvalidStateError while the
\* socket is connecting, the data is sent while it is open and dropped
\* once it is closing or closed.
send(c, data) ==
    IF c.readyState = "CONNECTING" THEN Note(c, "throw", 0, "InvalidStateError")
    ELSE IF c.readyState = "OPEN" THEN Note(c, "send", 0, Text(data))
    ELSE Note(c, "dropped", 0, Text(data))

\* The interval callback that keeps its timer.
interval_keepTimer(c) ==
    IF c.readyState = "CLOSED" THEN Note(c, "console", 0, "Closing pingpong!")
    ELSE send(c, Ping)

\* The callback of the ping interval.
interval(c) ==
    IF c.readyState = "CLOSED"
    THEN Note([c EXCEPT !.timer = FALSE], "console", 0, "Closing pingpong!")
    ELSE send(c, Ping)

\* The visibilitychange listener.
visibilitychange(c, visibilityState) ==
    IF visibilityState = "visible" /\ c.readyState /= "CLOSED"
    THEN send(c, Ping) ELSE c

\* ------------------------------------------------------------------ client actions

\* The client after a handler ran; the server side is not involved.
Handled(c, op) ==
    /\ readyState' = c.readyState
    /\ timer' = c.timer
    /\ old_msg' = c.old_msg
    /\ new_msg' = c.new_msg
    /\ main_div' = c.main_div
    /\ log' = c.log
    /\ call' = [op |-> op, ret |-> "void", names |-> <<>>]
    /\ UNCHANGED <<gameVars, serverVars, top_n>>

\* The interval fires: it does while it is scheduled.  The readyState it
\* finds is written to the log.
TimerFires ==
    /\ timer
    /\ Handled(interval(Note(CL, "args", 0, Text(readyState))), "interval")

VisibilityChange(visibilityState) ==
    Handled(visibilitychange(Note(CL, "args", 0, Text(visibilityState)), visibilityState),
            "visibilitychange")

\* A message arrives on the open socket.
OnMessage(event) ==
    /\ readyState = "OPEN"
    /\ Handled(onMessage(Note(CL, "args", 0, event), event), "onMessage")

\* The socket's life: it opens, starts closing, is closed.
SocketOpens ==
    /\ readyState = "CONNECTING"
    /\ Handled([CL EXCEPT !.readyState = "OPEN"], "onopen")
SocketClosing ==
    /\ readyState = "OPEN"
    /\ Handled([CL EXCEPT !.readyState = "CLOSING"], "closing")
SocketCloses ==
    /\ readyState /= "CLOSED"
    /\ Handled([CL EXCEPT !.readyState = "CLOSED"], "onclose")

\* socket.onclose: a second after the close the page is loaded again, with
\* a new socket, a new interval and the messages at their default.
Reload ==
    /\ readyState = "CLOSED"
    /\ Handled([readyState |-> "CONNECTING", timer |-> TRUE, old_msg |-> DefaultMsg,
                new_msg |-> DefaultMsg, main_div |-> "", log |-> <<>>], "reload")

\* ------------------------------------------------------------------ inputs

\* The names of S in locale order: the insertion order of the maps and the
\* order of the name arrays the calls below are given.
InOrder(S) == SelectSeq(LocaleOrder, LAMBDA x : x \in S)

\* The score maps over names with at most n entries, scores from ds.
MapsOver(names, ds, n) ==
    UNION {{[i \in 1..Len(InOrder(S)) |-> <<InOrder(S)[i], f[InOrder(S)[i]]>>] :
                f \in [S -> ds]} :
           S \in {T \in SUBSET names : Cardinality(T) <= n}}

\* The name arrays over names.
ArraysOver(names) == {InOrder(S) : S \in SUBSET names}

\* setCurState's idx argument, absolute or relative.
IdxArgs == -MaxStates..MaxStates

\* What the callbacks of the states do during one call.
Scripts(kinds) == [begin : kinds, end : kinds]

\* ------------------------------------------------------------------ construction

\* new Server(config): an empty route table and no connection yet.
NewServer == routeMap = EmptyMap /\ express = <<>> /\ sockets = <<>>

\* The client's page after socket_listener_setup(socket): the socket is
\* connecting, the ping interval is scheduled, both stored messages are the
\* default and the page shows no widget yet.
PageLoaded ==
    /\ readyState = "CONNECTING"
    /\ timer = TRUE
    /\ old_msg = DefaultMsg
    /\ new_msg = DefaultMsg
    /\ main_div = ""

\* new Game(config): the fields as declared, the states the configuration
\* names pushed in order (Lobby first), then begin_active on state 0.  subs
\* is who subscribed to both channels right after (nobody was subscribed
\* while the constructor ran).
NewGame(configs, lengths, subs) ==
    \E c \in configs, n \in lengths :
        /\ start_score = c[1]
        /\ reset_score = c[2]
        /\ state_sequence = SubSeq(StateNames, 1, n)
        /\ LET g0 == [cur_state_idx |-> 0, active |-> {}, players |-> <<>>,
                      gameStateListeners |-> <<>>, playerListeners |-> <<>>,
                      log |-> <<>>, ret |-> "void"]
               g == begin_active(g0, 0, [begin |-> "announce", end |-> "quiet"], 1)
           IN /\ cur_state_idx = g.cur_state_idx
              /\ active = g.active
              /\ players = g.players
              /\ gameStateListeners = g.gameStateListeners \o subs
              /\ playerListeners = g.playerListeners \o subs
              /\ log = g.log
              /\ call = [op |-> "constructor", ret |-> "void", names |-> <<>>]
        /\ last_valid_target = 0

\* The game alone: a server without routes, no BigScreenServer, and a
\* client page that has just been set up.
Constructed(configs, lengths) ==
    /\ NewGame(configs, lengths, <<>>)
    /\ NewServer
    /\ clients = <<>>
    /\ top_n = 3
    /\ PageLoaded

\* ------------------------------------------------------------------ Spec
\* The state machine and the game channel, driven by top-level calls.

Init == Constructed({<<1, 1>>}, 1..MaxStates)

Next ==
    \/ \E idx \in IdxArgs, relative \in BOOLEAN, cb \in Scripts(AnnouncingCallbacks) :
          SetCurState(idx, relative, cb)
    \/ GameStateChange
    \/ \E l \in Listeners : AddGameListener(l)
    \/ \E l \in Listeners : RemoveGameListener(l)

Spec == Init /\ [][Next]_vars

\* ------------------------------------------------------------------ SpecGame
\* Every operation of Game, with callbacks that only take the call; the
\* roster operations are called on one player and one unknown name.

GameMaps == MapsOver({"a", "zed"}, {-2}, 1)
RosterArrays == ArraysOver({"a", "zed"})

NextGame ==
    \/ \E idx \in {-1, 1}, relative \in BOOLEAN, cb \in Scripts(QuietCallbacks) :
          SetCurState(idx, relative, cb)
    \/ GameStateChange
    \/ PlayerChange
    \/ \E l \in {1} : AddGameListener(l)
    \/ \E l \in {1} : RemoveGameListener(l)
    \/ \E l \in {1} : AddPlayerListener(l)
    \/ \E l \in {1} : RemovePlayerListener(l)
    \/ \E name \in {"a", "zed"} : AddPlayer(name)
    \/ \E name \in {"a", "zed"} : RemovePlayer(name)
    \/ \E map \in GameMaps, additive \in BOOLEAN :
          UpdateScores(map, additive)
    \/ \E names \in RosterArrays, isplaying \in BOOLEAN :
          SetIsPlaying(names, isplaying)

SpecGame == Init /\ [][NextGame]_vars

\* ------------------------------------------------------------------ SpecRoster
\* The roster under every configuration, with two players and an unknown
\* name; the game stays in the lobby and nobody listens.

InitRoster == Constructed(Configs, {1})

\* The score maps given: every map over the two players, and maps that
\* name the unknown player alone or beside a known one.
RosterMaps == MapsOver(PlayerNames, Deltas, 2) \cup MapsOver({"a", "zed"}, {-1}, 2)

NextRoster ==
    \/ \E name \in PlayerNames : AddPlayer(name)
    \/ \E name \in PlayerNames : RemovePlayer(name)
    \/ \E map \in RosterMaps, additive \in BOOLEAN :
          UpdateScores(map, additive)
    \/ \E names \in RosterArrays, isplaying \in BOOLEAN :
          SetIsPlaying(names, isplaying)
    \/ PlayerChange

SpecRoster == InitRoster /\ [][NextRoster]_vars

\* ------------------------------------------------------------------ SpecBoard
\* The roster with a player listener and the two queries: two players join
\* and leave, "zed" is named but never joins.

BoardArrays == ArraysOver(ArgNames)
Filters == {"undefined", "true", "false"}

NextBoard ==
    \/ \E name \in PlayerNames : AddPlayer(name)
    \/ \E name \in ArgNames : RemovePlayer(name)
    \/ \E map \in RosterMaps, additive \in BOOLEAN :
          UpdateScores(map, additive)
    \/ \E names \in BoardArrays, isplaying \in BOOLEAN :
          SetIsPlaying(names, isplaying)
    \/ \E l \in {1} : AddPlayerListener(l)
    \/ \E l \in {1} : RemovePlayerListener(l)
    \/ PlayerDataDump
    \/ \E isplaying \in Filters : GetPlayerNames(isplaying)

SpecBoard == Constructed({<<1, 1>>}, {1}) /\ [][NextBoard]_vars

\* ------------------------------------------------------------------ SpecBus
\* The two channels: listeners come and go on both, states publish during
\* and outside transitions, the roster is announced when a player joins or
\* leaves.

\* Messages a state passes to gameStateChange: without a widget_name, and
\* with the name of a widget of its own.
Payloads == {[general_info |-> 0],
             [widget_name |-> "checkanswersstage", general_info |-> 0]}

NextBus ==
    \/ \E idx \in {0, 1}, cb \in Scripts(AnnouncingCallbacks) :
          SetCurState(idx, FALSE, cb)
    \/ GameStateChange
    \/ \E msg \in Payloads : Publish(msg)
    \/ PlayerChange
    \/ AddPlayer("a")
    \/ RemovePlayer("a")
    \/ \E l \in Listeners : AddGameListener(l)
    \/ \E l \in Listeners : RemoveGameListener(l)
    \/ \E l \in Listeners : AddPlayerListener(l)
    \/ \E l \in Listeners : RemovePlayerListener(l)

SpecBus == Constructed({<<1, 1>>}, {2}) /\ [][NextBus]_vars

\* ------------------------------------------------------------------ SpecLeaving
\* The two channels when one of the listeners unsubscribes itself while it
\* is being called.

NextLeaving ==
    \/ GameStateChange
    \/ PlayerChange
    \/ AddPlayer("a")
    \/ RemovePlayer("a")
    \/ \E l \in Listeners \cup LeavingListeners : AddGameListener(l)
    \/ \E l \in Listeners \cup LeavingListeners : RemoveGameListener(l)
    \/ \E l \in Listeners \cup LeavingListeners : AddPlayerListener(l)
    \/ \E l \in Listeners \cup LeavingListeners : RemovePlayerListener(l)

SpecLeaving == Constructed({<<1, 1>>}, {1}) /\ [][NextLeaving]_vars

\* ------------------------------------------------------------------ SpecReentrant
\* The state machine when a state's callback may call setCurState itself.

NextReentrant ==
    \/ \E idx \in IdxArgs, relative \in BOOLEAN, cb \in Scripts(ReentrantCallbacks) :
          SetCurState(idx, relative, cb)
    \/ \E l \in {1} : AddGameListener(l)
    \/ \E l \in {1} : RemoveGameListener(l)

SpecReentrant == Init /\ [][NextReentrant]_vars

\* ------------------------------------------------------------------ SpecServer
\* The server with two listeners and two routes: listeners are registered,
\* requests and websockets arrive, the listener of a socket sets and
\* replaces its onmessage, sockets receive messages and close.

Routes == {<<"/", "a">>, <<"/", "b">>}
ServerListeners == {1, 2}
\* The registrations made: route /a is given to both listeners.
Registrations == {<<<<"/", "a">>, 1>>, <<<<"/", "a">>, 2>>, <<<<"/", "b">>, 2>>}
\* A token one byte too long for the close reason to fit a close frame.
LongToken == [i \in 1..(MaxReasonBytes - ReasonTextBytes + 1) |-> "x"]
\* The route tokens websockets present: bound ones, one that differs in
\* case, none at all, and the long one.
Tokens == {<<"a">>, <<"b">>, <<"A">>, <<>>, LongToken}
Handlers == {"h1", "h2"}
Inbound == {Text(Ping), Text("hello")}

NextServer ==
    \/ \E r \in Registrations : AddServerListener(r[1], r[2])
    \/ \E route \in Routes : Get(route)
    \/ \E token \in Tokens : Connection(token)
    \/ \E id \in 1..MaxSockets, handler \in Handlers : SetOnmessage(id, handler)
    \/ \E id \in 1..MaxSockets, data \in Inbound : Message(id, data)
    \/ \E id \in 1..MaxSockets : Closed(id)

SpecServer == Constructed({<<1, 1>>}, {1}) /\ [][NextServer]_vars

\* ------------------------------------------------------------------ SpecClient
\* The client of one page: its socket opens and closes, the page is
\* loaded again after a close, the ping interval fires, and the server's
\* messages arrive, well-formed and not.

ServerMessages ==
    {Text(Pong), Text("garbage"), NonObj("null"), NonObj("number"), NonObj("array"),
     Obj(EmptyFields), Obj([other |-> "x"]),
     Obj([status |-> "failure"]), Obj([status |-> "failure", error_msg |-> "boom"]),
     Obj([status |-> "ok"]),
     Obj([status |-> "ok", widget_name |-> "lobby", player_update |-> "rows"]),
     Obj([status |-> "failure", widget_name |-> "lobby"]),
     Obj([widget_name |-> "lobby"]),
     Obj([widget_name |-> "openquestion", player_update |-> "rows"]),
     Obj([widget_name |-> "mystery"]),
     Obj([player_update |-> "rows"])}

NextClient ==
    \/ TimerFires
    \/ \E v \in {"visible", "hidden"} : VisibilityChange(v)
    \/ \E event \in ServerMessages : OnMessage(event)
    \/ SocketOpens
    \/ SocketClosing
    \/ SocketCloses
    \/ Reload

SpecClient == Constructed({<<1, 1>>}, {1}) /\ [][NextClient]_vars

\* ------------------------------------------------------------------ SpecScreen
\* The BigScreenServer between the game and its big-screen clients: it is
\* constructed with some top_n, sockets connect to its route and close,
\* the roster changes, the game moves between its two states and the active
\* state announces itself.

BigScreenRoute == <<"/", "b", "i", "g", "s", "c", "r", "e", "e", "n">>
ScreenTokens == {substring(BigScreenRoute, 1), <<"p">>}
ScreenMaps == MapsOver(PlayerNames, {1}, 1)

\* new Game(config), new Server(config), then new BigScreenServer(game,
\* server, top_n): it subscribes to both channels and registers its route.
InitScreen ==
    /\ NewGame({<<1, 1>>}, {2}, <<CHOOSE b \in BigScreens : TRUE>>)
    /\ top_n \in TopNs
    /\ clients = <<>>
    /\ LET s == addServerListener(
                   [routeMap |-> EmptyMap, express |-> <<>>, sockets |-> <<>>,
                    clients |-> <<>>, log |-> <<>>],
                   BigScreenRoute, CHOOSE b \in BigScreens : TRUE)
       IN routeMap = s.routeMap /\ express = s.express /\ sockets = s.sockets
    /\ PageLoaded

NextScreen ==
    \/ \E token \in ScreenTokens : Connection(token)
    \/ \E id \in 1..MaxSockets : Closed(id)
    \/ \E name \in PlayerNames : AddPlayer(name)
    \/ \E name \in PlayerNames : RemovePlayer(name)
    \/ \E map \in ScreenMaps, additive \in BOOLEAN : UpdateScores(map, additive)
    \/ \E names \in ArraysOver(PlayerNames) : SetIsPlaying(names, FALSE)
    \/ GameStateChange
    \/ \E idx \in {0, 1} :
          SetCurState(idx, FALSE, [begin |-> "announce", end |-> "quiet"])

SpecScreen == InitScreen /\ [][NextScreen]_vars

\* ------------------------------------------------------------------ reading the log

\* The positions of the log holding an event of kind ev.
Positions(ev) == {k \in 1..Len(log) : log[k].ev = ev}

\* Of the most recent setCurState call: the resulting target index and the
\* index before the call.
Target == log[1].who
OldIdx == log[1].cur
InRange(t) == t >= 0 /\ t < Len(state_sequence)
Transition == call.op = "setCurState" /\ InRange(Target)
Rejected == call.op = "setCurState" /\ ~InRange(Target)

\* ------------------------------------------------------------------ C1

\* C1: a setCurState call with its target in [0, length) invokes end_active
\* on the state that was current (once, with the index still the old one,
\* also when end_active returns), then begin_active on the target state
\* (once, with the index already the target), and end_active has returned
\* before begin_active starts.
C1_EndThenIndexThenBegin ==
    Transition =>
        \E e, er, b, br \in 1..Len(log) :
            /\ e < er /\ er < b /\ b < br
            /\ Positions("end_active") = {e}
            /\ Positions("end_active_ret") = {er}
            /\ Positions("begin_active") = {b}
            /\ Positions("begin_active_ret") = {br}
            /\ log[e].who = OldIdx /\ log[e].cur = OldIdx /\ log[er].cur = OldIdx
            /\ log[b].who = Target /\ log[b].cur = Target
            /\ cur_state_idx = Target

C1_Witness ==
    /\ Transition
    /\ Target /= OldIdx
    /\ Positions("game") /= {}

\* ------------------------------------------------------------------ C2

\* The payloads delivered to game listeners between positions lo and hi of
\* the log, in order.
GameDeliveries(lo, hi) ==
    SelectSeq(SubSeq(log, lo + 1, hi - 1), LAMBDA e : e.ev = "game")

\* The announcement of state i: its name merged with its status message.
Announcement(i) == Spread([widget_name |-> StateAt(i)], stateMsg(i))

\* W is one delivery of payload msg to every subscription, in order.
OneEach(W, msg) ==
    /\ Len(W) = Len(gameStateListeners)
    /\ \A i \in 1..Len(W) : W[i].who = gameStateListeners[i] /\ W[i].msg = msg

C3_RejectedIsNoOp ==
    [][Rejected' =>
          /\ UNCHANGED <<cur_state_idx, active, players, gameStateListeners,
                         playerListeners>>
          /\ \A k \in 1..Len(log') : log'[k].ev \in {"setCurState", "warn"}]_vars

C3_Witness ==
    /\ Rejected
    /\ cur_state_idx /= 0
    /\ gameStateListeners /= <<>>

\* ------------------------------------------------------------------ C4

\* C4: after any sequence of setCurState calls the current index is the
\* target of the latest call whose target was in range (0 if there was
\* none), a relative target being counted from the index the earlier calls
\* left.
C4_IndexIsLastValidTarget == cur_state_idx = last_valid_target

C4_Witness ==
    /\ Rejected
    /\ last_valid_target = 2
    /\ Target > 2

\* ------------------------------------------------------------------ C5

\* C5: the current index always lies in [0, length), and a step that
\* changes it is a setCurState call: no roster operation, listener
\* operation or publish writes the index.
C5_IndexInRangeOnlySetCurStateWrites ==
    /\ InRange(cur_state_idx)
    /\ [][/\ InRange(cur_state_idx')
          /\ cur_state_idx' /= cur_state_idx => call'.op = "setCurState"]_vars

C5_Witness ==
    /\ call.op = "updateScores"
    /\ cur_state_idx = Len(state_sequence) - 1
    /\ cur_state_idx /= 0
    /\ players /= <<>>
    /\ playerListeners /= <<>>

\* ------------------------------------------------------------------ C6

\* C6: between calls exactly one state is active (it got begin_active and
\* no end_active since) and it is the state at the current index.
C6_ExactlyTheCurrentStateActive == active = {cur_state_idx}

C6_Witness ==
    /\ Transition
    /\ Target /= OldIdx
    /\ cur_state_idx = 2

\* ------------------------------------------------------------------ C7

Mid == log[CHOOSE k \in Positions("scores_updated") : TRUE].msg
Rebalanced == call.op = "updateScores" /\ Positions("rebalance") /= {}

\* The players of Mid that the call named, and the others.
NamedInCall == {i \in 1..Len(Mid) : Mid[i].name \in Range(call.names)}
NotNamedInCall == (1..Len(Mid)) \ NamedInCall
ScoresAt(I) == {Mid[i].score : i \in I}
Lowest(S) == CHOOSE m \in S : \A x \in S : m <= x

\* The roster is Mid with amount added to every score and nothing else changed.
RaisedBy(amount) ==
    /\ Len(players) = Len(Mid)
    /\ \A i \in 1..Len(Mid) : players[i] = [Mid[i] EXCEPT !.score = @ + amount]

\* Rebalancing decided on the lowest of the scores S.
DecidedOn(S) ==
    IF S /= {} /\ Lowest(S) < 0
    THEN RaisedBy(-Lowest(S) + reset_score)
    ELSE players = Mid

C9_NoNegativeAfterUpdate ==
    call.op = "updateScores" => \A i \in 1..Len(players) : players[i].score >= 0

\* C9 amended: when start_score and reset_score are not negative, no player
\* of the roster ever has a negative score between calls, so none has after
\* an updateScores call, whatever addPlayer, removePlayer, setIsPlaying and
\* updateScores calls came before.
C9_NoNegativeUnderNonNegativeConfig ==
    (start_score >= 0 /\ reset_score >= 0) =>
        \A i \in 1..Len(players) : players[i].score >= 0

C9_Witness ==
    /\ start_score >= 0 /\ reset_score >= 0
    /\ Rebalanced
    /\ Len(players) = 2
    /\ \E i \in 1..Len(Mid) : Mid[i].score < -1

\* ------------------------------------------------------------------ C10

C11_ReturnsTrueIffRebalanced ==
    call.op = "updateScores" => (call.ret = TRUE <=> Rebalanced)

\* C11 amended: updateScores returns false exactly when it rebalanced in
\* that call, which is when a player it updated had a negative score after
\* the deltas, and true exactly when it did not rebalance.
C11_ReturnsFalseIffRebalanced ==
    call.op = "updateScores" =>
        /\ call.ret \in BOOLEAN
        /\ call.ret = FALSE <=> Rebalanced
        /\ call.ret = FALSE <=> \E i \in NamedInCall : Mid[i].score < 0

C11_Witness ==
    /\ Rebalanced
    /\ call.ret = FALSE
    /\ Len(players) = 2
    /\ players /= Mid

\* ------------------------------------------------------------------ C12

\* The deliveries of the most recent call to player listeners, in order.
PlayerDeliveries == SelectSeq(log, LAMBDA e : e.ev = "player")

\* The most recent call announced the roster once: one delivery for every
\* subscription, in subscription order, each carrying all the players as
\* they are when the call returns, and nothing else was delivered.
AnnouncedRosterOnce ==
    /\ Len(PlayerDeliveries) = Len(playerListeners)
    /\ \A i \in 1..Len(PlayerDeliveries) :
          /\ PlayerDeliveries[i].who = playerListeners[i]
          /\ Len(PlayerDeliveries[i].msg) = Len(players)
          /\ Range(PlayerDeliveries[i].msg) = Range(players)
    /\ Positions("game") = {}

\* C12: every updateScores call, whatever its map, delivers one player
\* announcement to every subscription, after the deltas and after any
\* rebalancing.
C12_UpdateScoresAnnouncesOnce ==
    call.op = "updateScores" =>
        /\ AnnouncedRosterOnce
        /\ \A k \in Positions("player") :
              \A j \in Positions("scores_updated") \cup Positions("rebalance")
                       \cup Positions("warn") : j < k

C12_Witness ==
    /\ Rebalanced
    /\ playerListeners /= <<>>
    /\ players /= <<>>
    /\ players /= Mid

\* ------------------------------------------------------------------ C13

\* The roster holds a player called name.
InRoster(ps, name) == \E i \in 1..Len(ps) : ps[i].name = name
\* No two entries of the roster have the same name.
NamesUnique == \A i, j \in 1..Len(players) :
                  players[i].name = players[j].name => i = j

\* C13: addPlayer on a name in use returns false, changes no entry and
\* announces nothing; on a new name it adds the player with start_score and
\* isplaying = true, announces the roster once and returns true.  Names
\* stay unique.
C13_AddPlayerSoftFailsOnDuplicate ==
    /\ NamesUnique
    /\ [][/\ NamesUnique'
          /\ call'.op = "addPlayer" =>
                LET name == call'.names[1]
                IN IF InRoster(players, name)
                   THEN /\ call'.ret = FALSE
                        /\ players' = players
                        /\ PlayerDeliveries' = <<>>
                   ELSE /\ call'.ret = TRUE
                        /\ players' = Append(players,
                              [name |-> name, score |-> start_score,
                               isplaying |-> TRUE])
                        /\ AnnouncedRosterOnce']_vars

C13_Witness ==
    /\ call.op = "addPlayer"
    /\ call.ret = FALSE
    /\ playerListeners /= <<>>
    /\ Len(players) = 2
    /\ \E i \in 1..Len(players) :
          /\ players[i].name = call.names[1]
          /\ players[i].score /= start_score
          /\ ~players[i].isplaying

\* ------------------------------------------------------------------ C14

\* C14: removePlayer on a name of the roster removes that entry only and
\* announces the roster once; on an unknown name it returns normally,
\* leaves the roster as it is and announces nothing.
C14_RemovePlayerOnlyThatOne ==
    [][call'.op = "removePlayer" =>
          LET name == call'.names[1]
          IN /\ call'.ret = "void"
             /\ players' = SelectSeq(players, LAMBDA p : p.name /= name)
             /\ IF InRoster(players, name)
                THEN AnnouncedRosterOnce'
                ELSE /\ players' = players
                     /\ PlayerDeliveries' = <<>>]_vars

C14_Witness ==
    /\ call.op = "removePlayer"
    /\ PlayerDeliveries /= <<>>
    /\ Len(players) = 1
    /\ players[1].score /= start_score
    /\ ~players[1].isplaying

\* ------------------------------------------------------------------ C15

\* The arguments of the most recent updateScores, setIsPlaying or publishing
\* call: .who is the boolean given, .msg the map's entries, the names or the
\* message.
Args == log[CHOOSE k \in Positions("args") : TRUE]
NamesOf(ps) == [i \in 1..Len(ps) |-> ps[i].name]
Named(name) == name \in Range(call.names)
\* The score the map of the call gives for name.
ScoreFor(name) == Args.msg[CHOOSE k \in 1..Len(Args.msg) : Args.msg[k][1] = name][2]

\* C15: updateScores and setIsPlaying keep the roster's entries: no name is
\* added or removed, an unknown name only warns, the known names of the
\* same call are applied, and a call naming only unknown players changes
\* no score and no flag.
C15_UnknownNamesAreSkipped ==
    [][call'.op \in {"updateScores", "setIsPlaying"} =>
          /\ NamesOf(players') = NamesOf(players)
          /\ Cardinality(Positions("warn")') =
                Cardinality({k \in 1..Len(call'.names) :
                                ~InRoster(players, call'.names[k])})
          /\ (\A k \in 1..Len(call'.names) : ~InRoster(players, call'.names[k]))
                => players' = players
          /\ call'.op = "updateScores" =>
                \A i \in 1..Len(players) :
                    Mid'[i] = IF Named(players[i].name)'
                              THEN [players[i] EXCEPT !.score =
                                      IF Args'.who
                                      THEN @ + ScoreFor(players[i].name)'
                                      ELSE ScoreFor(players[i].name)']
                              ELSE players[i]
          /\ call'.op = "setIsPlaying" =>
                \A i \in 1..Len(players) :
                    players'[i] = IF Named(players[i].name)'
                                  THEN [players[i] EXCEPT !.isplaying = Args'.who]
                                  ELSE players[i]]_vars

C15_Witness ==
    /\ call.op = "updateScores"
    /\ Len(call.names) = 2
    /\ ~InRoster(players, call.names[1])
    /\ InRoster(players, call.names[2])
    /\ Positions("warn") /= {}
    /\ ~Args.who
    /\ \E i \in 1..Len(players) : Mid[i].score = -2

\* ------------------------------------------------------------------ C16

\* C16: setIsPlaying gives every named player of the roster the flag of the
\* call, changes no score and no other player's flag, and announces the
\* roster once, after the last name was handled.
C16_SetIsPlayingNamedOnly ==
    [][call'.op = "setIsPlaying" =>
          /\ Len(players') = Len(players)
          /\ \A i \in 1..Len(players) :
                /\ players'[i].name = players[i].name
                /\ players'[i].score = players[i].score
                /\ players'[i].isplaying =
                      IF players[i].name \in Range(Args'.msg)
                      THEN Args'.who ELSE players[i].isplaying
          /\ AnnouncedRosterOnce'
          /\ \A k \in Positions("player")', j \in Positions("warn")' : j < k]_vars

C16_Witness ==
    /\ call.op = "setIsPlaying"
    /\ ~Args.who
    /\ Len(Args.msg) = 2
    /\ Positions("warn") /= {}
    /\ Len(PlayerDeliveries) = 2
    /\ Len(players) = 2
    /\ \E i, j \in 1..Len(players) :
          /\ ~players[i].isplaying /\ players[i].name \in Range(Args.msg)
          /\ players[j].isplaying /\ players[j].score /= start_score

\* ------------------------------------------------------------------ C17

\* x comes before y in the dump: playing before not playing, then the
\* higher score, then the name that String.localeCompare puts first.
DumpedBefore(x, y) ==
    \/ x.isplaying /\ ~y.isplaying
    \/ x.isplaying = y.isplaying /\ x.score > y.score
    \/ x.isplaying = y.isplaying /\ x.score = y.score
          /\ localeCompare(x.name, y.name) < 0

\* D holds every player of the roster once, in the order above.
IsDumpOf(D, ps) ==
    /\ Len(D) = Len(ps)
    /\ Range(D) = Range(ps)
    /\ \A i, j \in 1..Len(D) : i < j => DumpedBefore(D[i], D[j])

NamesWithFlag(flags) ==
    {players[i].name : i \in {j \in 1..Len(players) : players[j].isplaying \in flags}}

\* C18: getPlayerNames() returns the names of all players, each once;
\* getPlayerNames(b) the names of the players whose isplaying is b; the
\* results for true and false are disjoint and together are the unfiltered
\* result.
C18_NamesFilteredByFlag ==
    LET all == getPlayerNames(G, "undefined")
        playing == getPlayerNames(G, "true")
        out == getPlayerNames(G, "false")
    IN /\ Range(all) = NamesWithFlag(BOOLEAN) /\ Len(all) = Len(players)
       /\ Range(playing) = NamesWithFlag({TRUE})
       /\ Range(out) = NamesWithFlag({FALSE})
       /\ Range(playing) \cap Range(out) = {}
       /\ Range(playing) \cup Range(out) = Range(all)
       /\ Len(playing) + Len(out) = Len(all)
       /\ call.op = "getPlayerNames" =>
             call.ret = CASE call.names[1] = "undefined" -> all
                          [] call.names[1] = "true" -> playing
                          [] call.names[1] = "false" -> out

C18_Witness ==
    /\ call.op = "getPlayerNames"
    /\ call.names = <<"false">>
    /\ Len(players) = 2
    /\ Len(call.ret) = 1
    /\ call.ret[1] = players[1].name

\* ------------------------------------------------------------------ C19

\* The publish at position p of the log reached the subscribers subs: the
\* next Len(subs) events are the deliveries of its payload on topic, one for
\* every subscription in subscription order.
DeliveredInOrder(p, topic, subs) ==
    /\ p + Len(subs) <= Len(log)
    /\ \A i \in 1..Len(subs) :
          /\ log[p + i].ev = topic
          /\ log[p + i].who = subs[i]
          /\ log[p + i].msg = log[p].msg

\* The delivery at position q belongs to the latest publish before it.
BelongsToPublish(q, publish, subs) ==
    \E p \in Positions(publish) :
        /\ p < q /\ q <= p + Len(subs)
        /\ \A r \in Positions(publish) : ~(p < r /\ r < q)

\* C19: every publish on a channel is delivered to every subscription once,
\* in subscription order, before anything else happens, and every delivery
\* is the delivery of the latest publish: nothing is dropped, repeated,
\* reordered or batched.
C19_PublishesDeliveredInOrder ==
    /\ \A p \in Positions("publish_game") :
          DeliveredInOrder(p, "game", gameStateListeners)
    /\ \A p \in Positions("publish_player") :
          DeliveredInOrder(p, "player", playerListeners)
    /\ \A q \in Positions("game") :
          BelongsToPublish(q, "publish_game", gameStateListeners)
    /\ \A q \in Positions("player") :
          BelongsToPublish(q, "publish_player", playerListeners)

C19_Witness ==
    /\ call.op = "setCurState"
    /\ gameStateListeners = <<2, 1>>
    /\ Cardinality(Positions("publish_game")) = 2
    /\ \E p, q \in Positions("publish_game") : log[p].msg /= log[q].msg

\* ------------------------------------------------------------------ C20

\* The most recent call published a message that has a widget_name of its own.
PublishedOwnWidget ==
    /\ call.op = "gameStateChange"
    /\ Positions("args") /= {}
    /\ Args.who

\* C20 as stated: every payload delivered to game listeners has the name of
\* the active state as its widget_name, whatever the caller passed.
C20_WidgetNameIsActiveState ==
    \A q \in Positions("game") : log[q].msg.widget_name = StateAt(log[q].cur)

\* C20 amended: gameStateChange puts the active state's name under the
\* message, not over it: a delivered payload has the active state's name as
\* widget_name when the caller's message has none, and the caller's
\* widget_name when it has one.
C20_WidgetNameIsDefaultOnly ==
    \A q \in Positions("game") :
        log[q].msg.widget_name =
            IF PublishedOwnWidget THEN Args.msg.widget_name
            ELSE StateAt(log[q].cur)

C20_Witness ==
    /\ PublishedOwnWidget
    /\ cur_state_idx = 1
    /\ Len(gameStateListeners) = 2
    /\ \A q \in Positions("game") : log[q].msg.widget_name = "checkanswersstage"
    /\ Cardinality(Positions("game")) = 2

\* ------------------------------------------------------------------ C21

\* How often l is in the list subs, and how often it was called on topic
\* during the most recent call.
Subscriptions(subs, l) == Cardinality({i \in 1..Len(subs) : subs[i] = l})
Deliveries(topic, l) == Cardinality({q \in Positions(topic) : log[q].who = l})

\* C21: when a listener unsubscribes itself inside its callback, every
\* listener that is still subscribed when the publish is over (it was
\* subscribed when the publish started and nobody removed it) has received
\* the payload once for each of its subscriptions.
C21_UnsubscribingSkipsNobody ==
    /\ call.op = "gameStateChange" =>
          \A l \in Range(gameStateListeners) :
              Deliveries("game", l) = Subscriptions(gameStateListeners, l)
    /\ call.op \in {"playerChange", "addPlayer", "removePlayer"} =>
          (Positions("publish_player") /= {} =>
              \A l \in Range(playerListeners) :
                  Deliveries("player", l) = Subscriptions(playerListeners, l))

\* What the fan-out does instead: the listener that stands right behind the
\* leaving one in the list when it is called moves into its place and is
\* passed over by that publish.
C21_NextListenerIsSkipped ==
    /\ call.op = "gameStateChange"
    /\ gameStateListeners = <<1>>
    /\ Positions("game") /= {}
    /\ \A q \in Positions("game") : log[q].who \in LeavingListeners

\* ------------------------------------------------------------------ C22

\* subs without the first entry that is l; subs itself when l is not in it.
WithoutFirst(subs, l) ==
    IF \E i \in 1..Len(subs) : subs[i] = l
    THEN LET first == CHOOSE i \in 1..Len(subs) :
                          subs[i] = l /\ \A j \in 1..(i - 1) : subs[j] /= l
         IN [k \in 1..(Len(subs) - 1) |-> IF k < first THEN subs[k] ELSE subs[k + 1]]
    ELSE subs

\* C22: removeGameListener and removePlayerListener take the first
\* occurrence of the listener out of their own list, keep the other entries
\* in their order, leave the other list alone, and change nothing when the
\* listener is not subscribed.
C22_RemovesFirstOccurrenceOnly ==
    [][/\ call'.op = "removeGameListener" =>
             /\ call'.ret = "void"
             /\ gameStateListeners' = WithoutFirst(gameStateListeners, Args'.msg)
             /\ playerListeners' = playerListeners
       /\ call'.op = "removePlayerListener" =>
             /\ call'.ret = "void"
             /\ playerListeners' = WithoutFirst(playerListeners, Args'.msg)
             /\ gameStateListeners' = gameStateListeners]_vars

C22_Witness ==
    /\ call.op = "removeGameListener"
    /\ Args.msg = 1
    /\ gameStateListeners = <<2, 1>>

\* ------------------------------------------------------------------ C23

\* The listener route was first registered with: every registration that
\* was not turned away has its handler in express, in order.
Original(route) ==
    express[CHOOSE i \in 1..Len(express) :
               /\ express[i].route = route
               /\ \A j \in 1..(i - 1) : express[j].route /= route].listener
\* Who the most recent call handed a request or a websocket to.
HandedTo(ev) == {log[k].who : k \in Positions(ev)}

\* C23: a second addServerListener for a bound route is rejected: the route
\* table keeps the original listener for the route's token, and a later
\* GET request on the route and a later websocket presenting the token go
\* to the original listener only.
C23_DuplicateRouteKeepsOriginal ==
    /\ \A i \in 1..Len(express) :
          routeMap[substring(express[i].route, 1)] = Original(express[i].route)
    /\ call.op = "get" =>
          HandedTo("express_get") \subseteq
             {Original(r) : r \in {x \in Routes : x = Args.msg /\ has(routeMap, substring(x, 1))}}
    /\ call.op = "connection" =>
          HandedTo("add_websocket") \subseteq
             {Original(<<"/">> \o t) : t \in {x \in DOMAIN routeMap : x = Args.msg}}

\* What happens instead: after /a was registered for listener 1 and then
\* for listener 2, a websocket presenting a is handed to listener 2.
C23_SecondListenerTakesOver ==
    /\ call.op = "connection"
    /\ Args.msg = <<"a">>
    /\ Len(express) >= 2
    /\ express[1] = [route |-> <<"/", "a">>, listener |-> 1]
    /\ HandedTo("add_websocket") = {2}

\* ------------------------------------------------------------------ C24

\* The most recent call was a connection whose token is bound to no route.
Unmatched == call.op = "connection" /\ ~has(routeMap, Args.msg)

\* C24: a websocket whose token matches no bound route is closed with code
\* 1003 and a reason naming the token; it is handed to no listener and the
\* connection handler does not throw.
C24_UnmatchedTokenIsClosed ==
    Unmatched =>
        /\ Cardinality(Positions("close")) = 1
        /\ \A k \in Positions("close") :
              log[k].who = 1003 /\ log[k].msg.route = Args.msg
        /\ Positions("add_websocket") = {}
        /\ Positions("throw") = {}

\* What happens with a token of 77 bytes: the reason does not fit a close
\* frame, close throws, and no close frame is sent.
C24_LongTokenThrows ==
    /\ Unmatched
    /\ Args.msg = LongToken
    /\ Positions("throw") /= {}
    /\ Positions("close") = {}

\* ------------------------------------------------------------------ C25

\* The most recent call was a connection whose token is bound to a route.
Matched == call.op = "connection" /\ has(routeMap, Args.msg)

\* C25: a websocket whose token is bound is handed exactly once, to
\* add_websocket of the listener the route table holds for the token and to
\* nobody else; what the listener receives already has the heartbeat
\* overlay (the pong listener and the onmessage setter); the server does
\* not close the socket.
C25_OverlayThenBoundListenerOnce ==
    Matched =>
        /\ Cardinality(Positions("add_websocket")) = 1
        /\ \A k \in Positions("add_websocket") :
              /\ log[k].who = routeMap[Args.msg]
              /\ log[k].msg.pingable
              /\ log[k].msg.message = <<[kind |-> "pong", handler |-> "none"]>>
              /\ log[k].msg.protocol = Args.msg
        /\ Positions("close") = {}
        /\ Positions("throw") = {}
        /\ \E id \in DOMAIN sockets :
              sockets[id].protocol = Args.msg /\ sockets[id].listener = routeMap[Args.msg]

\* A websocket presenting b is handed to listener 2 while listener 1 is
\* bound to another route.
C25_Witness ==
    /\ Matched
    /\ Args.msg = <<"b">>
    /\ DOMAIN routeMap = {<<"a">>, <<"b">>}
    /\ routeMap[<<"a">>] = 1
    /\ HandedTo("add_websocket") = {2}

\* ------------------------------------------------------------------ C26

\* The most recent call was a ping arriving on a managed socket.
PingReceived == call.op = "message" /\ Args.msg.text = Ping

\* C26: a ping received on a managed socket is answered with exactly one
\* pong on that socket and is given to no handler of the listener, whether
\* the listener has not set onmessage, has set it, or has replaced it.
C26_PingGetsOnePongAndIsNotForwarded ==
    PingReceived =>
        /\ Cardinality(Positions("send")) = 1
        /\ \A k \in Positions("send") :
              log[k].who = Args.who /\ log[k].msg.text = Pong
        /\ Positions("handler") = {}

\* A ping arrives after the listener has replaced its onmessage.
C26_Witness ==
    /\ PingReceived
    /\ sockets[Args.who].replaced
    /\ Positions("send") /= {}

\* ------------------------------------------------------------------ C27

\* The most recent call was a firing of the ping interval that found the
\* socket in the given readyState.
Fired(state) == call.op = "interval" /\ Args.msg.text = state
\* The pings the most recent call sent.
PingsSent == {k \in Positions("send") : log[k].msg.text = Ping}

\* C27: a firing of the ping interval that finds the socket closed sends
\* nothing and cancels the interval, and a cancelled interval does not fire
\* again; a firing that finds the socket open sends exactly one ping and
\* leaves the interval scheduled.
C27_TimerStopsOnClosedSocket ==
    /\ [](/\ Fired("CLOSED") =>
                /\ Positions("send") = {}
                /\ Positions("dropped") = {}
                /\ Positions("throw") = {}
                /\ ~timer
          /\ Fired("OPEN") =>
                /\ Cardinality(PingsSent) = 1
                /\ Cardinality(Positions("send")) = 1
                /\ timer)
    /\ [][call'.op = "interval" => timer]_vars

\* The interval fired on a closed socket and is cancelled.
C27_Witness == Fired("CLOSED") /\ ~timer

\* ------------------------------------------------------------------ C28

\* The keys the client knows a message by.
KnownKeys == {"status", "widget_name", "player_update"}
\* A payload that is not the pong and is not JSON, or is JSON without any
\* of the known keys (an object without them, or no object at all).
Malformed(event) ==
    /\ event.text /= Pong
    /\ \/ ~IsJSON(event)
       \/ ~IsObject(event.value)
       \/ DOMAIN event.value.fields \cap KnownKeys = {}
\* A game-state update: JSON with widget_name and without status.
GameStateUpdate(event) ==
    /\ IsJSON(event)
    /\ IsObject(event.value)
    /\ "widget_name" \in DOMAIN event.value.fields
    /\ "status" \notin DOMAIN event.value.fields
Received == call.op = "onMessage"

\* C28: a malformed or unrecognised payload ends in the handler's catch
\* block: one error pop-up is shown, nothing is thrown out of the handler
\* and no event is dispatched, the socket stays open with its interval, and
\* old_msg, new_msg and the page are as they were; a game-state update that
\* arrives in any state, also after such a payload, is stored and
\* dispatched as usual.
C28_MalformedPayloadIsCaught ==
    /\ [](/\ Received /\ Malformed(Args.msg) =>
                /\ Cardinality(Positions("popup")) = 1
                /\ Positions("throw") = {}
                /\ Positions("dispatch") = {}
                /\ readyState = "OPEN"
          /\ Received /\ GameStateUpdate(Args.msg) =>
                /\ new_msg = Args.msg.value.fields
                /\ Cardinality(Positions("dispatch")) = 1
                /\ Positions("popup") = {})
    /\ [][call'.op = "onMessage" /\ Malformed(Args'.msg) =>
             /\ old_msg' = old_msg
             /\ new_msg' = new_msg
             /\ main_div' = main_div
             /\ readyState' = readyState
             /\ timer' = timer]_vars

\* An unrecognised payload arrived after a game-state update was stored:
\* the pop-up is shown and the stored message is still there.
C28_Witness ==
    /\ Received
    /\ Malformed(Args.msg)
    /\ Positions("popup") /= {}
    /\ new_msg /= DefaultMsg

\* ------------------------------------------------------------------ C29

\* The most recent call received a JSON object that has key and has none
\* of the keys in before.
ReceivedWith(key, before) ==
    /\ Received
    /\ IsJSON(Args.msg)
    /\ IsObject(Args.msg.value)
    /\ key \in DOMAIN Args.msg.value.fields
    /\ DOMAIN Args.msg.value.fields \cap before = {}
\* The fields of the object received.
Data == Args.msg.value.fields
\* The types of the events the most recent call dispatched, and the texts
\* of the pop-ups it showed.
Dispatched == {log[k].msg.type : k \in Positions("dispatch")}
Popups == {log[k].msg : k \in Positions("popup")}
\* The call dispatched one event, of the given type, and showed no pop-up.
OnlyDispatched(type) ==
    /\ Cardinality(Positions("dispatch")) = 1
    /\ Dispatched = {type}
    /\ Positions("popup") = {}

\* C29: a message is handled by the first rule that fits and by no other:
\* the pong does nothing; an object with status shows its error when the
\* status is failure and otherwise emits server_status; without status, an
\* object with widget_name is stored and emitted as a game-state update;
\* without both, an object with player_update emits player_update.  Only
\* the game-state rule writes old_msg, new_msg and the page.
C29_FirstMatchingRuleOnly ==
    /\ [](/\ Received /\ Args.msg.text = Pong => Len(log) = 1
          /\ ReceivedWith("status", {}) /\ Data.status = "failure" =>
                /\ Positions("dispatch") = {}
                /\ Cardinality(Positions("popup")) = 1
                /\ Popups = {IF "error_msg" \in DOMAIN Data
                             THEN Data.error_msg ELSE "Server error"}
          /\ ReceivedWith("status", {}) /\ Data.status /= "failure" =>
                OnlyDispatched("server_status")
          /\ ReceivedWith("widget_name", {"status"}) =>
                OnlyDispatched(Data.widget_name) /\ new_msg = Data
          /\ ReceivedWith("player_update", {"status", "widget_name"}) =>
                OnlyDispatched("player_update"))
    /\ [][call'.op = "onMessage" /\ ~GameStateUpdate(Args'.msg) =>
             old_msg' = old_msg /\ new_msg' = new_msg /\ main_div' = main_div]_vars

\* A message with all three keys and a status other than failure emitted
\* server_status and nothing else.
C29_Witness ==
    /\ ReceivedWith("status", {})
    /\ {"widget_name", "player_update"} \subseteq DOMAIN Data
    /\ Dispatched = {"server_status"}

\* ------------------------------------------------------------------ C30

\* The player_update messages the most recent call sent to sockets.
PlayerUpdatesSent ==
    {k \in Positions("send") : "player_update" \in DOMAIN log[k].msg.value}
\* The sorted roster at the time of sending: the roster does not change
\* between the announcement and the end of the call.
Snapshot == playerDataDump(G)
\* How many rows a message has to carry.
RowsDue == IF top_n < Len(players) THEN top_n ELSE Len(players)

\* C30: every player_update message the BigScreenServer sends carries the
\* first min(top_n, roster size) entries of the sorted roster, in their
\* order, so that no entry sent ranks below one left out.
C30_SendsTopRowsOfSnapshot ==
    \A k \in PlayerUpdatesSent :
        LET rows == log[k].msg.value.player_update
        IN /\ Len(rows) = RowsDue
           /\ \A i \in 1..RowsDue : rows[i] = Snapshot[i]
           /\ \A i \in 1..RowsDue, j \in (RowsDue + 1)..Len(Snapshot) :
                 compare(rows[i], Snapshot[j]) <= 0
           /\ log[k].who \in DOMAIN sockets

\* One row of a roster of two is sent, and it is not the player who joined
\* first.
C30_Witness ==
    /\ top_n = 1
    /\ Len(players) = 2
    /\ PlayerUpdatesSent /= {}
    /\ \A k \in PlayerUpdatesSent :
          log[k].msg.value.player_update = <<Snapshot[1]>> /\ Snapshot[1] /= players[1]

\* ------------------------------------------------------------------ C31

\* The most recent call was setCurState with the current index as target.
SameState == Transition /\ Target = OldIdx

\* C31: setCurState whose target is the current index is a transition like
\* any other: the state gets end_active and then, once that has returned,
\* begin_active; nothing is rejected; the index is what it was, the state
\* is the active one again and the target counts as the latest valid one.
C31_SameIndexIsATransition ==
    SameState =>
        \E e, er, b, br \in 1..Len(log) :
            /\ e < er /\ er < b /\ b < br
            /\ Positions("end_active") = {e}
            /\ Positions("end_active_ret") = {er}
            /\ Positions("begin_active") = {b}
            /\ Positions("begin_active_ret") = {br}
            /\ log[e].who = OldIdx /\ log[b].who = OldIdx
            /\ Positions("warn") = {}
            /\ cur_state_idx = OldIdx
            /\ active = {OldIdx}
            /\ last_valid_target = OldIdx

\* The game re-entered a state other than the lobby and the state
\* announced itself to a listener on the way in.
C31_Witness ==
    /\ SameState
    /\ Target > 0
    /\ Positions("begin_active") /= {}
    /\ Positions("game") /= {}

\* ------------------------------------------------------------------ C32

\* The calls that announce on the player channel.
PlayerCalls == {"playerChange", "addPlayer", "removePlayer", "updateScores",
                "setIsPlaying"}
\* The listeners the most recent call invoked on topic, in order.
Invoked(topic) ==
    LET ds == SelectSeq(log, LAMBDA e : e.ev = topic)
    IN [i \in 1..Len(ds) |-> ds[i].who]
\* Nothing happened on the channel of topic during the most recent call.
Silent(topic, publish) == Positions(topic) = {} /\ Positions(publish) = {}

\* C32: the two channels are independent.  A playerChange or a roster
\* operation invokes the player listeners, in their order, when it
\* announces, and nothing on the game channel; gameStateChange invokes the
\* game listeners and nothing on the player channel; no call changes the
\* listener list of a channel except the subscribe and unsubscribe of that
\* channel.
C32_ChannelsAreIndependent ==
    /\ [](/\ call.op \in PlayerCalls =>
                /\ Silent("game", "publish_game")
                /\ Invoked("player") =
                      (IF Positions("publish_player") = {} THEN <<>> ELSE playerListeners)
          /\ call.op = "gameStateChange" =>
                /\ Silent("player", "publish_player")
                /\ Invoked("game") = gameStateListeners)
    /\ [][/\ call'.op \notin {"addGameListener", "removeGameListener"} =>
               gameStateListeners' = gameStateListeners
          /\ call'.op \notin {"addPlayerListener", "removePlayerListener"} =>
               playerListeners' = playerListeners]_vars

\* A player was added while somebody listened on the game channel only:
\* the roster was published and nobody was invoked.
C32_Witness ==
    /\ call.op = "addPlayer"
    /\ Positions("publish_player") /= {}
    /\ gameStateListeners /= <<>>
    /\ playerListeners = <<>>
    /\ Positions("game") = {}
    /\ Positions("player") = {}

\* ------------------------------------------------------------------ C33

\* The most recent call told listener l the roster as it is now.
ToldCurrentRoster(l) ==
    \E k \in 1..Len(log) :
        /\ log[k].ev = "player"
        /\ log[k].who = l
        /\ log[k].msg = playerDataDump(G)

\* C33: the payload of every player announcement is the sorted snapshot of
\* the roster as the operation that announced left it, and no roster
\* operation changes the roster without telling every listener subscribed
\* at the time; so the last payload a listener subscribed throughout
\* received is the current playerDataDump(), or it received nothing and
\* the roster is as at subscription.
C33_PayloadIsCurrentSnapshot ==
    /\ [](call.op \in PlayerCalls =>
            \A k \in 1..Len(log) :
                log[k].ev \in {"publish_player", "player"} =>
                    log[k].msg = playerDataDump(G))
    /\ [][players' /= players =>
            \A l \in Range(playerListeners) : ToldCurrentRoster(l)']_vars

\* updateScores drove a score below zero while somebody listened: every
\* score was raised, and the listener was told the raised, re-sorted roster.
C33_Witness ==
    /\ call.op = "updateScores"
    /\ call.ret = FALSE
    /\ Len(players) = 2
    /\ playerListeners /= <<>>
    /\ playerDataDump(G) /= players
    /\ ToldCurrentRoster(1)

\* ------------------------------------------------------------------ C34

\* The most recent call was a message other than a ping arriving on a
\* managed socket.
OtherReceived == call.op = "message" /\ Args.msg.text /= Ping
\* The handler the listener of socket id set last.
CurrentHandler(id) == sockets[id].message[Len(sockets[id].message)].handler
\* The message was given once, to the handler set last, and to no other.
ForwardedOnce ==
    /\ Cardinality(Positions("handler")) = 1
    /\ \A k \in Positions("handler") :
          /\ log[k].who = Args.who
          /\ log[k].msg.handler = CurrentHandler(Args.who)
          /\ log[k].msg.data = Args.msg.text

\* C34 as stated: a message that is not a ping never causes a pong, before
\* the listener has set onmessage and after; after, it is given once to
\* the handler set last and to no handler set before.
C34_OtherMessagesAreNeverPonged ==
    OtherReceived =>
        /\ Positions("send") = {}
        /\ sockets[Args.who].installed => ForwardedOnce

\* C34: until the listener sets onmessage, any message received on a
\* managed socket is answered with exactly one pong; once it has set
\* onmessage, a message that is not a ping causes no pong and is given once
\* to the handler set last and to no handler set before.
C34_OtherMessagesArePongedUntilInstalled ==
    OtherReceived =>
        IF sockets[Args.who].installed
        THEN Positions("send") = {} /\ ForwardedOnce
        ELSE /\ Cardinality(Positions("send")) = 1
             /\ \A k \in Positions("send") :
                   log[k].who = Args.who /\ log[k].msg.text = Pong
             /\ Positions("handler") = {}

\* A message that is not a ping arrives after the listener has replaced its
\* handler, and is given to a handler.
C34_Witness ==
    /\ OtherReceived
    /\ sockets[Args.who].replaced
    /\ Positions("handler") /= {}

\* ------------------------------------------------------------------ C35

\* The sockets handed to the BigScreenServer whose close event has not been
\* handled.
ScreenSockets == {id \in DOMAIN sockets : sockets[id].listener \in BigScreens}
\* The announcements on topic the BigScreenServer received in the most
\* recent call.
Announced(topic) == {k \in Positions(topic) : log[k].who \in BigScreens}
\* The messages with the given key that the most recent call sent to
\* socket id.
SentTo(id, key) ==
    {k \in Positions("send") : log[k].who = id /\ key \in DOMAIN log[k].msg.value}

\* C35: the client list of the BigScreenServer holds, once each, the
\* sockets handed to it whose close event has not been handled; an
\* announcement on either channel is sent once to each socket of the list
\* and to no other; handling the close of a socket removes that socket
\* from the list and no other.
C35_ClientListFollowsSockets ==
    /\ [](/\ Range(clients) = ScreenSockets
          /\ Len(clients) = Cardinality(ScreenSockets)
          /\ call.op \in PlayerCalls \cup {"gameStateChange", "setCurState"} =>
                /\ \A k \in Positions("send") : log[k].who \in Range(clients)
                /\ \A id \in Range(clients) :
                      /\ Cardinality(SentTo(id, "player_update")) =
                            Cardinality(Announced("player"))
                      /\ Cardinality(SentTo(id, "widget_name")) =
                            Cardinality(Announced("game")))
    /\ [][call'.op = "onclose" =>
            /\ Range(clients) \ Range(clients') = DOMAIN sockets \ DOMAIN sockets'
            /\ Range(clients') \subseteq Range(clients)]_vars

\* Of two connected sockets the first has closed; the state announces
\* itself and the message goes once to the second socket, and only there.
C35_Witness ==
    /\ call.op = "gameStateChange"
    /\ clients = <<2>>
    /\ DOMAIN sockets = {2}
    /\ Cardinality(Positions("send")) = 1
    /\ Cardinality(SentTo(2, "widget_name")) = 1

\* ------------------------------------------------------------------ C36

\* The most recent call was a connection that the server handed to the
\* BigScreenServer.
Joined ==
    /\ call.op = "connection"
    /\ \E a \in Positions("add_websocket") : log[a].who \in BigScreens
\* The socket that joined: the one pushed last.
Joiner == clients[Len(clients)]

====
